---- MODULE Spec2Model ----
(***************************************************************************)
(* Verification model of gxxtools (jbloino/gxxtools): the submitter        *)
(* gxxtools.sub (main, parse_options) with the queue/resource resolver of  *)
(* gxxtools.sub.arch (get_arch_spec, _get_spec_by_queue,                   *)
(* _get_spec_generic).                                                     *)
(*                                                                         *)
(* Conventions                                                             *)
(*  - A Python str that the code splits, strips, parses or formats is a    *)
(*    sequence of one-character strings.                                   *)
(*  - A Python Optional value is a set with at most one element:           *)
(*    None is {} and a value v is {v}.                                     *)
(*  - Memory sizes are integers that are multiples of MemLimitDen, so that *)
(*    the product with _MEM_LIMIT = 0.9 is exact.                          *)
(***************************************************************************)
EXTENDS Integers, Sequences, FiniteSets, TLC

VARIABLES
    nodes_info,     \* gtpar.nodes_info: family key -> node family
    queues_info,    \* gtpar.queues_info: queue name -> family key
    node_family,    \* gtpar.node_family: None or the selected family
    server,         \* gtpar.server (nodestype)
    config,         \* gxxconfig.ini, [QUEUE] walltime
    opts,           \* parsed command line (argparse.Namespace)
    pc,             \* position in get_arch_spec
    maxcpu,         \* dict returned by _get_spec_*: soft, hard, base
    maxmem,         \* dict returned by _get_spec_*: soft, hard, base
    job_extra,      \* dict returned by _get_spec_* / get_arch_spec
    tmp_path,       \* path returned by get_arch_spec
    error,          \* exception or sys.exit that ended the call
    env,            \* gtpar.user and the job id (JOB_PID)
    step,           \* position in main() / parse_options()
    exit_code,      \* exit status of the process, None while it runs
    report,         \* what the process printed when it stopped
    gconf,          \* gxxversions.ini as read by ConfigParser
    gxx_versions,   \* gtpar.gxx_versions: None, or key -> version
    workings_info,  \* gtpar.workings_info: None, or key -> working tree
    gxx_spec,       \* what get_gxx_spec returned, None before
    options,        \* dict built by parse_options
    main_nprocs,    \* main, nprocs: number of processors of the job, or None
    main_mem,       \* main, mem: memory of the job, or None
    full_P,         \* main: combined number of processors of the inputs
    full_M,         \* main: combined memory of the inputs
    ops_copy,       \* main: files to copy from/to the computing node
    gjf_new,        \* the inputs written by check_gjf, one per input file
    stage,          \* gtpar.stage: state of build of the parameters
    outcomes,       \* what get_arch_spec gave for the options of earlier calls
    libcall         \* the last call of a function of the library, None before

\* the state read and written by get_arch_spec
archVars == <<nodes_info, queues_info, node_family, server, config, opts, pc,
              maxcpu, maxmem, job_extra, tmp_path, error, env>>

\* the state of the Gaussian catalogs
gxxVars == <<gconf, gxx_versions, workings_info, gxx_spec>>

\* the resources and the inputs of the job
jobVars == <<main_nprocs, main_mem, full_P, full_M, ops_copy, gjf_new>>

\* the state of main() outside get_arch_spec
mainVars == <<step, exit_code, report, gxxVars, options, jobVars>>

\* the state of a process that calls the library outside main()
libVars == <<stage, outcomes, libcall>>

vars == <<archVars, mainVars, libVars>>

----------------------------------------------------------------------------
(* Optional values *)

None == {}

Some(v) == {v}

IsNone(o) == o = {}

Val(o) == CHOOSE v \in o : TRUE

----------------------------------------------------------------------------
(* Python built-ins on strings and integers *)

Digits == <<"0", "1", "2", "3", "4", "5", "6", "7", "8", "9">>

DigitSet == {Digits[i] : i \in 1..10}

DigitVal(c) == (CHOOSE i \in 1..10 : Digits[i] = c) - 1

Abs(n) == IF n < 0 THEN -n ELSE n

Max(a, b) == IF a >= b THEN a ELSE b

\* str.strip(): remove leading and trailing blanks
RECURSIVE LStrip(_)
LStrip(s) == IF s # <<>> /\ Head(s) = " " THEN LStrip(Tail(s)) ELSE s

RECURSIVE RStrip(_)
RStrip(s) ==
    IF s # <<>> /\ s[Len(s)] = " " THEN RStrip(SubSeq(s, 1, Len(s) - 1)) ELSE s

Strip(s) == RStrip(LStrip(s))

\* `s or None` on a str
StrOrNone(s) == IF s = <<>> THEN None ELSE Some(s)

\* str.split(sep) for a one-character separator
RECURSIVE Split(_, _)
Split(s, sep) ==
    IF \A i \in 1..Len(s) : s[i] # sep
    THEN <<s>>
    ELSE LET k == CHOOSE i \in 1..Len(s) :
                      s[i] = sep /\ \A j \in 1..(i - 1) : s[j] # sep
         IN  <<SubSeq(s, 1, k - 1)>> \o Split(SubSeq(s, k + 1, Len(s)), sep)

\* value of a non-empty string of decimal digits
RECURSIVE DigitsVal(_)
DigitsVal(s) ==
    IF s = <<>> THEN 0
    ELSE 10 * DigitsVal(SubSeq(s, 1, Len(s) - 1)) + DigitVal(s[Len(s)])

\* int(s): blanks stripped, optional sign, one or more decimal digits.
\* The result is None when Python raises ValueError.
PyInt(s) ==
    LET t    == Strip(s)
        sgn  == t # <<>> /\ Head(t) \in {"+", "-"}
        body == IF sgn THEN Tail(t) ELSE t
    IN  IF body = <<>> \/ \E i \in 1..Len(body) : body[i] \notin DigitSet
        THEN None
        ELSE Some(IF sgn /\ Head(t) = "-" THEN -DigitsVal(body)
                  ELSE DigitsVal(body))

\* str(n) for a natural number
RECURSIVE NatStr(_)
NatStr(n) ==
    IF n < 10 THEN <<Digits[n + 1]>>
    ELSE NatStr(n \div 10) \o <<Digits[(n % 10) + 1]>>

\* str(n)
PyStr(n) == IF n < 0 THEN <<"-">> \o NatStr(-n) ELSE NatStr(n)

Zeros(k) == [i \in 1..k |-> "0"]

\* format(n, '0{w}d'): sign-aware zero padding to a minimal width w
FormatZeroPad(n, w) ==
    LET sgn == IF n < 0 THEN <<"-">> ELSE <<>>
        dig == NatStr(Abs(n))
    IN  sgn \o Zeros(Max(0, w - Len(sgn) - Len(dig))) \o dig

\* `sub in s` for strings
IsSubstring(sub, s) ==
    \E i \in 1..(Len(s) - Len(sub) + 1) : SubSeq(s, i, i + Len(sub) - 1) = sub

\* s.replace(old, '') : remove the occurrences of old, left to right
RECURSIVE RemoveAll(_, _)
RemoveAll(s, old) ==
    IF old = <<>> \/ Len(s) < Len(old) THEN s
    ELSE IF SubSeq(s, 1, Len(old)) = old
         THEN RemoveAll(SubSeq(s, Len(old) + 1, Len(s)), old)
         ELSE <<Head(s)>> \o RemoveAll(Tail(s), old)

\* `a or b` where a is an Optional number
OrElse(a, b) == IF IsNone(a) \/ Val(a) = 0 THEN b ELSE a

----------------------------------------------------------------------------
(* Installation-specific parameters of gxxtools.sub.arch *)

_USE_LOGICAL_CORE == FALSE

\* _MEM_LIMIT = .9 as the fraction MemLimitNum / MemLimitDen
MemLimitNum == 9

MemLimitDen == 10

\* Variant of MemScale: the factor is applied twice
MemScale_Twice(x) ==
    (((x * MemLimitNum) \div MemLimitDen) * MemLimitNum) \div MemLimitDen

\* x * _MEM_LIMIT for a memory size x (a multiple of MemLimitDen)
MemScale(x) == (x * MemLimitNum) \div MemLimitDen

----------------------------------------------------------------------------
(* Exceptions and exits of the resolver *)

NoError == [exc |-> "none", msg |-> "", code |-> None]

Raise(exc, msg) == [exc |-> exc, msg |-> msg, code |-> None]

SysExit(code, msg) == [exc |-> "SystemExit", msg |-> msg, code |-> Some(code)]

MalformedSpec == Raise("ValueError", "Too many sections in full queue specification.")

UnknownQueue == Raise("KeyError", "Unsupported queue.")

NoLimit == Raise("ValueError", "No limit on number of processors.")

InvalidCpuSpec == Raise("ValueError", "Unsupported definition of processors.")

\* `res` is read at arch.py:313 on a path that never assigned it
UnboundRes == Raise("UnboundLocalError", "res")

TooManyCores == Raise("ValueError", "Too many processing units requested.")

HardLimitExceeded == Raise("ValueError", "Number of processing units exceeds hard limit.")

NoMemoryLimit == Raise("ValueError", "No memory limit.")

InvalidNodeId == Raise("KeyError", "Wrong definition of the node ID")

ConflictingNodeSelection ==
    SysExit(2, "ERROR: Different nodes selected through virtual queue and option")

GroupNotAuthorized ==
    SysExit(10, "ERROR: Chosen group not authorized to use this node.")

NoGenericSpec == Raise("KeyError", "Cannot find the generic specifications.")

----------------------------------------------------------------------------
(* Node families (hpcnodes.NodeFamily as used by the resolver) *)

\* NodeFamily.nprocs(count_all): cores of one node, logical ones included
\* when count_all is set
NProcs(fam, count_all) ==
    IF count_all THEN fam.ncpus * fam.ncores * fam.nthreads
    ELSE fam.ncpus * fam.ncores

\* len(NodeFamily): number of nodes of the family
NodeCount(fam) == fam.nnodes

----------------------------------------------------------------------------
(* _get_spec_by_queue *)

EmptyDict == <<>>

\* outcome of a resolver call that stopped on `e`; fam is the value left in
\* gtpar.node_family
Failure(e, fam) ==
    [err |-> e, family |-> fam, maxcpu |-> EmptyDict, maxmem |-> EmptyDict,
     job_extra |-> EmptyDict]

\* Variant of ParseQueueSpec: the sections after the third are ignored
ParseQueueSpec_ExtraIgnored(queue) ==
    LET data == Split(queue, ":")
    IN  IF Len(data) = 1
        THEN [err |-> NoError, queue |-> data[1], nprocs |-> None,
              nodeid |-> None]
        ELSE IF Len(data) = 2
        THEN [err |-> NoError, queue |-> data[1],
              nprocs |-> StrOrNone(Strip(data[2])), nodeid |-> None]
        ELSE [err |-> NoError, queue |-> data[1],
              nprocs |-> StrOrNone(Strip(data[2])),
              nodeid |-> StrOrNone(Strip(data[3]))]

\* Queue specification parsing: queue[:[nprocs][:nodeid]]
ParseQueueSpec(queue) ==
    LET data == Split(queue, ":")
    IN  IF Len(data) = 1
        THEN [err |-> NoError, queue |-> data[1], nprocs |-> None,
              nodeid |-> None]
        ELSE IF Len(data) = 2
        THEN [err |-> NoError, queue |-> data[1],
              nprocs |-> StrOrNone(Strip(data[2])), nodeid |-> None]
        ELSE IF Len(data) = 3
        THEN [err |-> NoError, queue |-> data[1],
              nprocs |-> StrOrNone(Strip(data[2])),
              nodeid |-> StrOrNone(Strip(data[3]))]
        ELSE [err |-> MalformedSpec, queue |-> <<>>, nprocs |-> None,
              nodeid |-> None]

\* gtpar.nodes_info[gtpar.queues_info[queue]]: None on KeyError
LookupFamily(ninfo, qinfo, queue) ==
    IF queue \in DOMAIN qinfo /\ qinfo[queue] \in DOMAIN ninfo
    THEN Some(ninfo[qinfo[queue]])
    ELSE None

\* Variant of HalfCpuCores: half of the cores of the whole node
HalfCpuCores_OfNode(fam) == NProcs(fam, _USE_LOGICAL_CORE) \div 2

\* int(ncores*core_factor/2) with core_factor = nprocs_avail/nprocs(False)
HalfCpuCores(fam) ==
    (fam.ncores * NProcs(fam, _USE_LOGICAL_CORE)) \div (NProcs(fam, FALSE) * 2)

\* int(1*core_factor)
SingleCore(fam) == NProcs(fam, _USE_LOGICAL_CORE) \div NProcs(fam, FALSE)

\* int(abs(value)*ncores*core_factor)
WholeCpus(fam, value) ==
    (Abs(value) * fam.ncores * NProcs(fam, _USE_LOGICAL_CORE))
        \div NProcs(fam, FALSE)

\* maxcpu['soft'], maxcpu['hard'] before the request is resolved
CpuLimits(fam) ==
    [soft |-> fam.cpu_limits.soft,
     hard |-> OrElse(fam.cpu_limits.hard, Some(NProcs(fam, _USE_LOGICAL_CORE)))]

\* Definition of number of processors: the value bound to `res`
\* (None when no branch assigns it)
CpuRequest(fam, nprocs) ==
    LET lim == CpuLimits(fam)
    IN  IF IsNone(nprocs)
        THEN IF ~IsNone(lim.soft) THEN [err |-> NoError, res |-> lim.soft]
             ELSE IF ~IsNone(lim.hard) THEN [err |-> NoError, res |-> lim.hard]
             ELSE [err |-> NoLimit, res |-> None]
        ELSE IF Val(nprocs) = <<"H">>
        THEN [err |-> NoError, res |-> Some(HalfCpuCores(fam))]
        ELSE IF Val(nprocs) = <<"S">>
        THEN [err |-> NoError, res |-> Some(SingleCore(fam))]
        ELSE IF Val(nprocs) = <<"0">>
        THEN [err |-> NoError, res |-> Some(NProcs(fam, _USE_LOGICAL_CORE))]
        ELSE LET value == PyInt(Val(nprocs))
             IN  IF IsNone(value) THEN [err |-> InvalidCpuSpec, res |-> None]
                 ELSE IF Val(value) < 0
                 THEN [err |-> NoError, res |-> Some(WholeCpus(fam, Val(value)))]
                 ELSE IF Val(value) > 0
                 THEN [err |-> NoError, res |-> value]
                 ELSE [err |-> NoError, res |-> None]

\* Variant of CpuCheck: the hard limit is tested before the capacity
CpuCheck_HardFirst(fam, n) ==
    IF ~IsNone(fam.cpu_limits.hard) /\ n > Val(fam.cpu_limits.hard)
    THEN HardLimitExceeded
    ELSE IF n > NProcs(fam, _USE_LOGICAL_CORE) THEN TooManyCores
    ELSE NoError

\* Checks of the request against the node capacity and the hard limit
CpuCheck(fam, n) ==
    IF n > NProcs(fam, _USE_LOGICAL_CORE) THEN TooManyCores
    ELSE IF ~IsNone(fam.cpu_limits.hard) /\ n > Val(fam.cpu_limits.hard)
    THEN HardLimitExceeded
    ELSE NoError

\* Check memory specifications
MemSpec(fam) ==
    LET soft0 == fam.mem_limits.soft
        hard0 == OrElse(fam.mem_limits.hard, fam.size_mem)
        soft  == IF ~IsNone(soft0) THEN Some(MemScale(Val(soft0))) ELSE None
        hard  == IF ~IsNone(hard0) THEN Some(MemScale(Val(hard0))) ELSE None
    IN  IF ~IsNone(soft)
        THEN [err |-> NoError,
              maxmem |-> [soft |-> soft, hard |-> hard, base |-> Val(soft)]]
        ELSE IF ~IsNone(hard)
        THEN [err |-> NoError,
              maxmem |-> [soft |-> soft, hard |-> hard, base |-> Val(hard)]]
        ELSE [err |-> NoMemoryLimit, maxmem |-> EmptyDict]

\* Node id given in the virtual queue
NodeIdOf(fam, nodeid) ==
    IF IsNone(nodeid) THEN [err |-> NoError, nodeid |-> None]
    ELSE LET value == PyInt(Val(nodeid))
         IN  IF IsNone(value) \/ Val(value) > NodeCount(fam)
             THEN [err |-> InvalidNodeId, nodeid |-> None]
             ELSE [err |-> NoError, nodeid |-> value]

\* Variant of NodeSelect: --node silently replaces the id of the queue
NodeSelect_Override(nodeid, node) ==
    IF ~IsNone(node) THEN [err |-> NoError, nodeid |-> node]
    ELSE [err |-> NoError, nodeid |-> nodeid]

\* Node id given through --node and through the virtual queue
NodeSelect(nodeid, node) ==
    IF ~IsNone(node)
    THEN IF ~IsNone(nodeid) /\ nodeid # node
         THEN [err |-> ConflictingNodeSelection, nodeid |-> None]
         ELSE [err |-> NoError, nodeid |-> node]
    ELSE [err |-> NoError, nodeid |-> nodeid]

\* Variant of HostWidth: the width of the highest id counted from 0
HostWidth_LastId(fam) == Len(PyStr(NodeCount(fam) - 1))

\* '{qname}{id:0Wd}' with W = len(str(len(node_family)))
HostWidth(fam) == Len(PyStr(NodeCount(fam)))

HostName(fam, id) == fam.queue_name \o FormatZeroPad(id, HostWidth(fam))

\* Group specification: the error, and the `group` entry of job_extra
GroupSpec(fam, group) ==
    IF IsNone(fam.user_groups) THEN [err |-> NoError, extra |-> EmptyDict]
    ELSE IF ~IsNone(group)
         /\ \A i \in 1..Len(Val(fam.user_groups)) :
                Val(fam.user_groups)[i] # Val(group)
    THEN [err |-> GroupNotAuthorized, extra |-> EmptyDict]
    ELSE [err |-> NoError, extra |-> [group |-> group]]

\* The local `group` chosen at arch.py:371/378 (not stored anywhere)
ChosenGroup(fam, group) ==
    IF ~IsNone(group) THEN Val(group) ELSE Val(fam.user_groups)[1]

GetSpecByQueue(o, ninfo, qinfo) ==
    LET p == ParseQueueSpec(o.queue)
    IN  IF p.err # NoError THEN Failure(p.err, None)
        ELSE
        LET f == LookupFamily(ninfo, qinfo, p.queue)
        IN  IF IsNone(f) THEN Failure(UnknownQueue, None)
            ELSE
            LET fam == Val(f)
                req == CpuRequest(fam, p.nprocs)
            IN  IF req.err # NoError THEN Failure(req.err, f)
                ELSE IF IsNone(req.res) THEN Failure(UnboundRes, f)
                ELSE IF CpuCheck(fam, Val(req.res)) # NoError
                THEN Failure(CpuCheck(fam, Val(req.res)), f)
                ELSE
                LET cpu == [soft |-> CpuLimits(fam).soft,
                            hard |-> CpuLimits(fam).hard,
                            base |-> Val(req.res)]
                    mem == MemSpec(fam)
                    nid == NodeIdOf(fam, p.nodeid)
                    sel == NodeSelect(nid.nodeid, o.node)
                    grp == GroupSpec(fam, o.group)
                    base == [qname |-> p.queue, qbase |-> fam.queue_name]
                    host == IF IsNone(sel.nodeid) THEN EmptyDict
                            ELSE [host |-> HostName(fam, Val(sel.nodeid))]
                IN  IF mem.err # NoError THEN Failure(mem.err, f)
                    ELSE IF nid.err # NoError THEN Failure(nid.err, f)
                    ELSE IF sel.err # NoError THEN Failure(sel.err, f)
                    ELSE IF grp.err # NoError THEN Failure(grp.err, f)
                    ELSE [err |-> NoError, family |-> f, maxcpu |-> cpu,
                          maxmem |-> mem.maxmem,
                          job_extra |-> grp.extra @@ host @@ base]

----------------------------------------------------------------------------
(* _get_spec_generic *)

UpperLetters ==
    <<"A", "B", "C", "D", "E", "F", "G", "H", "I", "J", "K", "L", "M", "N",
      "O", "P", "Q", "R", "S", "T", "U", "V", "W", "X", "Y", "Z">>

LowerLetters ==
    <<"a", "b", "c", "d", "e", "f", "g", "h", "i", "j", "k", "l", "m", "n",
      "o", "p", "q", "r", "s", "t", "u", "v", "w", "x", "y", "z">>

LowerCase(c) ==
    IF \E i \in 1..26 : UpperLetters[i] = c
    THEN LowerLetters[CHOOSE i \in 1..26 : UpperLetters[i] = c]
    ELSE c

\* str.lower()
Lower(s) == [i \in 1..Len(s) |-> LowerCase(s[i])]

GenericNames ==
    << <<"b", "a", "s", "i", "c">>, <<"b", "a", "s", "e">>,
       <<"g", "e", "n", "e", "r", "i", "c">>,
       <<"g", "e", "n", "e", "r", "a", "l">> >>

\* key of the family holding the generic specifications, None on KeyError
GenericKey(ninfo) ==
    LET hit(i) == \E k \in DOMAIN ninfo : Lower(k) = GenericNames[i]
    IN  IF \A i \in 1..Len(GenericNames) : ~hit(i) THEN None
        ELSE LET first == CHOOSE i \in 1..Len(GenericNames) :
                              hit(i) /\ \A j \in 1..(i - 1) : ~hit(j)
             IN  Some(CHOOSE k \in DOMAIN ninfo : Lower(k) = GenericNames[first])

GetSpecGeneric(o, ninfo) ==
    LET key == GenericKey(ninfo)
    IN  IF IsNone(key) THEN Failure(NoGenericSpec, None)
        ELSE
        LET fam == ninfo[Val(key)]
            f   == Some(fam)
            lim == CpuLimits(fam)
            res == IF ~IsNone(lim.soft) THEN lim.soft ELSE lim.hard
        IN  IF IsNone(res) THEN Failure(NoLimit, f)
            ELSE IF CpuCheck(fam, Val(res)) # NoError
            THEN Failure(CpuCheck(fam, Val(res)), f)
            ELSE
            LET cpu == [soft |-> lim.soft, hard |-> lim.hard, base |-> Val(res)]
                mem == MemSpec(fam)
                grp == GroupSpec(fam, o.group)
            IN  IF mem.err # NoError THEN Failure(mem.err, f)
                ELSE IF grp.err # NoError THEN Failure(grp.err, f)
                ELSE [err |-> NoError, family |-> f, maxcpu |-> cpu,
                      maxmem |-> mem.maxmem, job_extra |-> grp.extra]

----------------------------------------------------------------------------
(* get_arch_spec: walltime, storage space and temporary directory *)

MissingQueueName == SysExit(10, "ERROR: missing queue name to set walltime.")

MissingWalltime == SysExit(10, "ERROR: missing walltime")

InvalidWalltimeFormat == SysExit(10, "ERROR: wrong format for the walltime")

\* re.fullmatch called with None instead of a string
WalltimeTypeError == Raise("TypeError", "expected string or bytes-like object")

InvalidStorageSize == SysExit(10, "ERROR: Incorrect format for the storage space")

NoScratchSpecification ==
    SysExit(10, "WARNING: No local storage specification.  Cowardly quitting.")

AllDigits(s) == \A i \in 1..Len(s) : s[i] \in DigitSet

\* re.fullmatch(r'\d+:\d{2}:\d{2}', s)
WalltimeFormatOk(s) ==
    LET f == Split(s, ":")
    IN  /\ Len(f) = 3
        /\ Len(f[1]) >= 1 /\ AllDigits(f[1])
        /\ Len(f[2]) = 2 /\ AllDigits(f[2])
        /\ Len(f[3]) = 2 /\ AllDigits(f[3])

\* the loop over wtime_dat.items(): value of the first non-empty key found
\* in qname, None when the loop ends without a match
RECURSIVE FirstMatch(_, _)
FirstMatch(items, qname) ==
    IF items = <<>> THEN None
    ELSE IF Head(items)[1] # <<>> /\ IsSubstring(Head(items)[1], qname)
         THEN Some(Head(items)[2])
         ELSE FirstMatch(Tail(items), qname)

\* wtime_dat[''] when the key exists
DefaultWalltime(items) ==
    IF \E i \in 1..Len(items) : items[i][1] = <<>>
    THEN Some(items[CHOOSE i \in 1..Len(items) : items[i][1] = <<>>][2])
    ELSE None

\* walltime from the map: first match, else the '' entry, else None
WalltimeLookup(items, extra) ==
    LET qbase == IF "qbase" \in DOMAIN extra THEN extra.qbase ELSE <<>>
        qname == RemoveAll(extra.qname, qbase)
        wtime == FirstMatch(items, qname)
    IN  IF IsNone(wtime) THEN DefaultWalltime(items) ELSE wtime

WalltimeSpec(cfg, o, extra) ==
    IF ~cfg.walltime_needed THEN [err |-> NoError, extra |-> extra]
    ELSE IF IsNone(o.walltime) /\ cfg.walltime.kind # "dict"
    THEN [err |-> MissingWalltime, extra |-> extra]
    ELSE IF IsNone(o.walltime) /\ "qname" \notin DOMAIN extra
    THEN [err |-> MissingQueueName, extra |-> extra]
    ELSE LET wtime == IF IsNone(o.walltime)
                      THEN WalltimeLookup(cfg.walltime.items, extra)
                      ELSE o.walltime
         IN  IF IsNone(wtime) THEN [err |-> WalltimeTypeError, extra |-> extra]
             ELSE IF ~WalltimeFormatOk(Val(wtime))
             THEN [err |-> InvalidWalltimeFormat, extra |-> extra]
             ELSE [err |-> NoError,
                   extra |-> [walltime |-> Val(wtime)] @@ extra]

\* hpc.convert_storage accepts a number followed by a unit
StorageOk(s) ==
    \E k \in 1..(Len(s) - 1) :
        /\ AllDigits(SubSeq(s, 1, k))
        /\ SubSeq(s, k + 1, Len(s)) \in
               {<<"B">>, <<"K", "B">>, <<"M", "B">>, <<"G", "B">>, <<"T", "B">>}

StorageSpec(srv, o, extra) ==
    IF srv.nodestype # "central" THEN [err |-> NoError, extra |-> extra]
    ELSE IF ~StorageOk(o.tmpspace)
    THEN [err |-> InvalidStorageSize, extra |-> extra]
    ELSE [err |-> NoError, extra |-> [diskmem |-> o.tmpspace] @@ extra]

\* str.format(username=user): the placeholder is the element "{username}"
RECURSIVE FormatUser(_, _)
FormatUser(s, user) ==
    IF s = <<>> THEN <<>>
    ELSE (IF Head(s) = "{username}" THEN user ELSE <<Head(s)>>)
         \o FormatUser(Tail(s), user)

JobDirPrefix == <<"g", "a", "u", "r", "u", "n", "-">>

PathSep == <<"/">>

\* Variant of TmpPath: the template of the family is preferred to --tmpdir
TmpPath_FamilyFirst(o, fam, e) ==
    LET tmpl == IF ~IsNone(fam.path_tmpdir) /\ Val(fam.path_tmpdir) # <<>>
                THEN fam.path_tmpdir
                ELSE IF ~IsNone(o.tmpdir) THEN o.tmpdir
                ELSE None
    IN  IF IsNone(tmpl) THEN [err |-> NoScratchSpecification, path |-> None]
        ELSE LET path == FormatUser(Val(tmpl), e.user)
             IN  [err |-> NoError,
                  path |-> Some(IF path # <<>> /\ Head(path) = "$" THEN path
                                ELSE path \o PathSep \o JobDirPrefix \o e.jobid)]

\* analyse storage: --tmpdir, else the template of the family, else exit
TmpPath(o, fam, e) ==
    LET tmpl == IF ~IsNone(o.tmpdir) THEN o.tmpdir
                ELSE IF ~IsNone(fam.path_tmpdir) /\ Val(fam.path_tmpdir) # <<>>
                THEN fam.path_tmpdir
                ELSE None
    IN  IF IsNone(tmpl) THEN [err |-> NoScratchSpecification, path |-> None]
        ELSE LET path == FormatUser(Val(tmpl), e.user)
             IN  [err |-> NoError,
                  path |-> Some(IF path # <<>> /\ Head(path) = "$" THEN path
                                ELSE path \o PathSep \o JobDirPrefix \o e.jobid)]

----------------------------------------------------------------------------
(* Operations *)

\* Variant of CallSpecByQueue: the scaled memory limits are written back to
\* the family of the catalog
CallSpecByQueue_ScalesCatalog ==
    /\ step = "arch"
    /\ pc = "spec"
    /\ server.nodestype = "queues"
    /\ LET r == GetSpecByQueue(opts, nodes_info, queues_info)
       IN  /\ node_family' = (IF IsNone(r.family) THEN node_family ELSE r.family)
           /\ maxcpu' = r.maxcpu
           /\ maxmem' = r.maxmem
           /\ job_extra' = r.job_extra
           /\ error' = r.err
           /\ pc' = (IF r.err = NoError THEN "walltime" ELSE "failed")
           /\ nodes_info' =
                 [k \in DOMAIN nodes_info |->
                    IF r.err = NoError /\ k = queues_info[r.job_extra.qname]
                    THEN [nodes_info[k] EXCEPT !.mem_limits.soft = r.maxmem.soft]
                    ELSE nodes_info[k]]
    /\ UNCHANGED <<queues_info, server, config, opts, tmp_path, env>>
    /\ UNCHANGED mainVars
    /\ UNCHANGED libVars

\* get_arch_spec, first statement on a server with queues
CallSpecByQueue ==
    /\ step = "arch"
    /\ pc = "spec"
    /\ server.nodestype = "queues"
    /\ LET r == GetSpecByQueue(opts, nodes_info, queues_info)
       IN  /\ node_family' = (IF IsNone(r.family) THEN node_family ELSE r.family)
           /\ maxcpu' = r.maxcpu
           /\ maxmem' = r.maxmem
           /\ job_extra' = r.job_extra
           /\ error' = r.err
           /\ pc' = (IF r.err = NoError THEN "walltime" ELSE "failed")
    /\ UNCHANGED <<nodes_info, queues_info, server, config, opts, tmp_path, env>>
    /\ UNCHANGED mainVars
    /\ UNCHANGED libVars

\* get_arch_spec, first statement on a centrally scheduled server
CallSpecGeneric ==
    /\ step = "arch"
    /\ pc = "spec"
    /\ server.nodestype = "central"
    /\ LET r == GetSpecGeneric(opts, nodes_info)
       IN  /\ node_family' = (IF IsNone(r.family) THEN node_family ELSE r.family)
           /\ maxcpu' = r.maxcpu
           /\ maxmem' = r.maxmem
           /\ job_extra' = r.job_extra
           /\ error' = r.err
           /\ pc' = (IF r.err = NoError THEN "walltime" ELSE "failed")
    /\ UNCHANGED <<nodes_info, queues_info, server, config, opts, tmp_path, env>>
    /\ UNCHANGED mainVars
    /\ UNCHANGED libVars

\* get_arch_spec after the resolver returned: walltime, storage, scratch path
FinishArchSpec ==
    /\ step = "arch"
    /\ pc = "walltime"
    /\ LET w == WalltimeSpec(config, opts, job_extra)
           d == StorageSpec(server, opts, w.extra)
           t == TmpPath(opts, Val(node_family), env)
       IN  IF w.err # NoError
           THEN /\ error' = w.err /\ pc' = "failed"
                /\ UNCHANGED <<job_extra, tmp_path>>
           ELSE IF d.err # NoError
           THEN /\ error' = d.err /\ pc' = "failed"
                /\ job_extra' = w.extra
                /\ UNCHANGED tmp_path
           ELSE IF t.err # NoError
           THEN /\ error' = t.err /\ pc' = "failed"
                /\ job_extra' = d.extra
                /\ UNCHANGED tmp_path
           ELSE /\ error' = NoError /\ pc' = "done"
                /\ job_extra' = d.extra
                /\ tmp_path' = t.path
    /\ UNCHANGED <<nodes_info, queues_info, node_family, server, config, opts,
                   maxcpu, maxmem, env>>
    /\ UNCHANGED mainVars
    /\ UNCHANGED libVars

----------------------------------------------------------------------------
(* parse_options and main *)

NoReport == [head |-> "", reason |-> ""]

Printed(head) == [head |-> head, reason |-> ""]

UnsupportedQueueReport == Printed("ERROR: Unsupported queue")

WrongQueueSpecReport(msg) ==
    [head |-> "ERROR: Wrong virtual queue specification", reason |-> msg]

\* an exception that nothing catches: traceback on stderr, exit status 1
Traceback(e) == [head |-> "Traceback", reason |-> e.exc]

\* exit status and output of the process for what left get_arch_spec:
\* the except clauses of parse_options, sys.exit, or no handler at all
ArchFailure(e) ==
    IF e.exc = "KeyError"
    THEN [code |-> 2, report |-> UnsupportedQueueReport]
    ELSE IF e.exc = "ValueError"
    THEN [code |-> 2, report |-> WrongQueueSpecReport(e.msg)]
    ELSE IF e.exc = "SystemExit"
    THEN [code |-> Val(e.code), report |-> Printed(e.msg)]
    ELSE [code |-> 1, report |-> Traceback(e)]

\* parse_options: the try statement around get_arch_spec
ArchSpecReturn ==
    /\ step = "arch"
    /\ pc \in {"done", "failed"}
    /\ IF pc = "failed"
       THEN /\ step' = "exit"
            /\ exit_code' = Some(ArchFailure(error).code)
            /\ report' = ArchFailure(error).report
       ELSE /\ step' = "gxx"
            /\ UNCHANGED <<exit_code, report>>
    /\ UNCHANGED archVars
    /\ UNCHANGED <<gxxVars, options, jobVars>>
    /\ UNCHANGED libVars

----------------------------------------------------------------------------
(* gxxtools.sub.gaussian: the catalog of the Gaussian versions               *)
(*                                                                         *)
(* A text of the configuration is a sequence of atoms: single characters   *)
(* (",", " ", "/", ".") and indivisible words ("jb", "opt", "{arch}").      *)

\* ConfigParser.optionxform: option names are stored and looked up
\* lower-cased
OptionXForm(n) ==
    CASE n = "ModuleName" -> "modulename"
      [] n = "FullPath" -> "fullpath"
      [] n = "RootPath" -> "rootpath"
      [] n = "BaseDir" -> "basedir"
      [] n = "GxxPathFmt" -> "gxxpathfmt"
      [] n = "GDir" -> "gdir"
      [] n = "Machs" -> "machs"
      [] n = "Name" -> "name"
      [] n = "Gaussian" -> "gaussian"
      [] n = "Revision" -> "revision"
      [] n = "Date" -> "date"
      [] n = "Shared" -> "shared"
      [] n = "Workings" -> "workings"
      [] n = "WorkPath" -> "workpath"
      [] n = "WorkPathFmt" -> "workpathfmt"
      [] n = "Version" -> "version"
      [] OTHER -> n

\* ConfigParser.read: the options of a section as they are stored, from the
\* options as they are written in the file
ReadSection(sec) ==
    [name |-> sec.name,
     data |-> [k \in {OptionXForm(w) : w \in DOMAIN sec.data} |->
                  sec.data[CHOOSE w \in DOMAIN sec.data : OptionXForm(w) = k]]]

\* `option in data` on a section proxy (has_option)
Has(data, option) == OptionXForm(option) \in DOMAIN data

\* gconf.get(sec, option, fallback=fallback), data[option]
Get(data, option, fallback) ==
    IF Has(data, option) THEN Some(data[OptionXForm(option)]) ELSE fallback

\* set(data): the option names as stored
Keys(data) == DOMAIN data

Letters ==
    {"a", "b", "c", "d", "e", "f", "g", "h", "i", "j", "k", "l", "m", "n",
     "o", "p", "q", "r", "s", "t", "u", "v", "w", "x", "y", "z"}

\* \w of the regular expressions
WordChars == Letters \cup DigitSet \cup {"_", "A", "B", "C", "G"}

\* GXX_FORMAT.match(sec): g(dv|\d{2})\.?\w\d{2}[p+]? at the start of sec
GxxFormat(sec) ==
    /\ Len(sec) >= 6
    /\ sec[1] = "g"
    /\ \/ sec[2] = "d" /\ sec[3] = "v"
       \/ sec[2] \in DigitSet /\ sec[3] \in DigitSet
    /\ LET i == IF sec[4] = "." THEN 5 ELSE 4
       IN  /\ Len(sec) >= i + 2
           /\ sec[i] \in WordChars
           /\ sec[i + 1] \in DigitSet /\ sec[i + 2] \in DigitSet

\* s.replace(old, new)
RECURSIVE ReplaceAll(_, _, _)
ReplaceAll(s, old, new) ==
    IF old = <<>> \/ Len(s) < Len(old) THEN s
    ELSE IF SubSeq(s, 1, Len(old)) = old
         THEN new \o ReplaceAll(SubSeq(s, Len(old) + 1, Len(s)), old, new)
         ELSE <<Head(s)>> \o ReplaceAll(Tail(s), old, new)

\* sec.lower().replace('.', '').replace('+', 'p')
VersionKey(sec) == ReplaceAll(RemoveAll(Lower(sec), <<".">>), <<"+">>, <<"p">>)

\* [item.strip() for item in text.split(',')]
RECURSIVE StripEach(_)
StripEach(items) ==
    IF items = <<>> THEN <<>>
    ELSE <<Strip(Head(items))>> \o StripEach(Tail(items))

SplitList(text) == StripEach(Split(text, ","))

\* `x in items` for a list
InList(x, items) == \E i \in 1..Len(items) : items[i] = x

GxxKeyError(msg) == Raise("KeyError", msg)

\* str.replace called with None as replacement
ReplaceTypeError == Raise("TypeError", "replace() argument 2 must be str, not None")

DefaultPathFmt == <<"{rootpath}", "/", "{basedir}", "/", "{arch}", "/", "{gxx}">>

\* Root path of a version from FullPath
FullPathFmt(path_fmt, res) ==
    LET path0 == <<"{fullpath}">>
        path1 == <<"{rootpath}", "/", "{basedir}">>
        fmt   == IF IsSubstring(path0, path_fmt)
                 THEN ReplaceAll(path_fmt, path0, res)
                 ELSE IF IsSubstring(path1, path_fmt)
                 THEN ReplaceAll(path_fmt, path1, res)
                 ELSE path_fmt
    IN  IF IsSubstring(<<"{rootpath}">>, fmt) \/ IsSubstring(<<"{basedir}">>, fmt)
        THEN [err |-> GxxKeyError("Overspecification in Gaussian root path."),
              path |-> <<>>]
        ELSE [err |-> NoError, path |-> fmt]

\* Root path of a version from RootPath and BaseDir
RootPathFmt(path_fmt, root, base) ==
    IF IsSubstring(<<"{rootpath}">>, path_fmt) /\ IsNone(root)
    THEN [err |-> GxxKeyError("ERROR: Missing Gaussian root installation dir."),
          path |-> <<>>]
    ELSE IF IsNone(root) THEN [err |-> ReplaceTypeError, path |-> <<>>]
    ELSE LET fmt == ReplaceAll(path_fmt, <<"{rootpath}">>, Val(root))
         IN  IF IsSubstring(<<"{basedir}">>, fmt) /\ IsNone(base)
             THEN [err |-> GxxKeyError("ERROR: Missing BaseDir component."),
                   path |-> <<>>]
             ELSE IF IsNone(base) THEN [err |-> ReplaceTypeError, path |-> <<>>]
             ELSE [err |-> NoError,
                   path |-> ReplaceAll(fmt, <<"{basedir}">>, Val(base))]

\* Machine architectures of a version: None, or the list of the names
VersionMachs(data) ==
    LET res == Get(data, "Machs", None)
    IN  IF IsNone(res) \/ Strip(Val(res)) = <<>> THEN None
        ELSE Some(SplitList(Val(res)))

\* Usage restrictions: None for no Shared option and for any/all
SharedList(data) ==
    LET res == Get(data, "Shared", None)
    IN  IF IsNone(res) THEN None
        ELSE LET items == SplitList(Val(res))
             IN  IF \E i \in 1..Len(items) :
                        Lower(items[i]) \in {<<"a", "n", "y">>, <<"a", "l", "l">>}
                 THEN None
                 ELSE Some(items)

\* Gaussian version label: Name, or Gaussian + ' Rev. ' + Revision
VersionName(data) ==
    IF Has(data, "Name") THEN Get(data, "Name", None)
    ELSE IF ~Has(data, "Gaussian") \/ ~Has(data, "Revision") THEN None
    ELSE Some(Val(Get(data, "Gaussian", None)) \o <<" Rev. ">>
              \o Val(Get(data, "Revision", None)))

\* one iteration of the loop of gxx_parse_versions on a version section:
\* the error raised, or the entry stored under the key of the section
ParseVersion(sec) ==
    LET data     == sec.data
        path_fmt == Lower(Val(Get(data, "GxxPathFmt", Some(DefaultPathFmt))))
        install  ==
            IF Has(data, "FullPath")
            THEN LET r == FullPathFmt(path_fmt, Val(Get(data, "FullPath", None)))
                 IN  [err |-> r.err, entry |-> [path |-> r.path]]
            ELSE IF ~Has(data, "ModuleName")
            THEN LET r == RootPathFmt(path_fmt, Get(data, "RootPath", None),
                                      Get(data, "BaseDir", None))
                 IN  [err |-> r.err, entry |-> [path |-> r.path]]
            ELSE [err |-> NoError,
                  entry |-> [module |-> Val(Get(data, "ModuleName", None))]]
        gdir     == Get(data, "GDir", Some(Lower(Split(sec.name, ".")[1])))
        name     == VersionName(data)
    IN  IF Has(data, "ModuleName")
           /\ ({"FullPath", "RootPath", "BaseDir"} \cap Keys(data)) # {}
        THEN [err |-> GxxKeyError("Incompatible Module and Path specifications."),
              entry |-> EmptyDict]
        ELSE IF install.err # NoError
        THEN [err |-> install.err, entry |-> EmptyDict]
        ELSE IF IsNone(name)
        THEN [err |-> GxxKeyError("ERROR: Gaussian/Revision or Name must be provided."),
              entry |-> EmptyDict]
        ELSE [err |-> NoError,
              entry |-> install.entry
                        @@ [gxx  |-> Val(gdir),
                            mach |-> VersionMachs(data),
                            name |-> Val(name),
                            date |-> Get(data, "Date", None),
                            pub  |-> SharedList(data),
                            work |-> IF Has(data, "Workings")
                                     THEN Some(SplitList(Val(Get(data, "Workings", None))))
                                     ELSE None]]

\* gxx_parse_versions: the loop over the sections, in sorted order;
\* `keys` is the order of insertion in the dictionary
RECURSIVE GxxParseVersions(_, _)
GxxParseVersions(sections, acc) ==
    IF sections = <<>> THEN acc
    ELSE LET sec == Head(sections)
         IN  IF ~GxxFormat(sec.name) THEN GxxParseVersions(Tail(sections), acc)
             ELSE LET r   == ParseVersion(sec)
                      key == VersionKey(sec.name)
                  IN  IF r.err # NoError
                      THEN [err |-> r.err, versions |-> acc.versions,
                            keys |-> acc.keys]
                      ELSE GxxParseVersions(
                               Tail(sections),
                               [err |-> NoError,
                                versions |-> (key :> r.entry) @@ acc.versions,
                                keys |-> IF InList(key, acc.keys) THEN acc.keys
                                         ELSE Append(acc.keys, key)])

NoVersions == [err |-> NoError, versions |-> EmptyDict, keys |-> <<>>]

----------------------------------------------------------------------------
(* gxxtools.sub.gaussian: the catalog of the working trees *)

DefaultWorkFmt == <<"{workpath}", "/", "{basedir}", "/", "{arch}">>

\* the last key, in insertion order, of a version whose label is gname
RECURSIVE KeyByName(_, _, _)
KeyByName(keys, versions, gname) ==
    IF keys = <<>> THEN None
    ELSE IF versions[keys[Len(keys)]].name = gname THEN Some(keys[Len(keys)])
    ELSE KeyByName(SubSeq(keys, 1, Len(keys) - 1), versions, gname)

\* Root path of a working tree from FullPath
WorkFullPathFmt(path_fmt, res) ==
    LET path0 == <<"{fullpath}">>
        path1 == <<"{workpath}", "/", "{basedir}">>
        fmt   == IF IsSubstring(path0, path_fmt)
                 THEN ReplaceAll(path_fmt, path0, res)
                 ELSE IF IsSubstring(path1, path_fmt)
                 THEN ReplaceAll(path_fmt, path1, res)
                 ELSE path_fmt
    IN  IF IsSubstring(<<"{workpath}">>, fmt) \/ IsSubstring(<<"{basedir}">>, fmt)
        THEN [err |-> GxxKeyError("Overspecification in working root path."),
              path |-> <<>>]
        ELSE [err |-> NoError, path |-> fmt]

\* Root path of a working tree from WorkPath and BaseDir, without default
\* roots (work_ref['roots'] is None)
WorkPathFmt(path_fmt, root, base) ==
    IF IsSubstring(<<"{workpath}">>, path_fmt) /\ IsNone(root)
    THEN [err |-> GxxKeyError("ERROR: Missing working root directory."),
          path |-> <<>>]
    ELSE IF IsNone(root) THEN [err |-> ReplaceTypeError, path |-> <<>>]
    ELSE LET fmt == ReplaceAll(path_fmt, <<"{workpath}">>, Val(root))
         IN  IF IsSubstring(<<"{basedir}">>, fmt) /\ IsNone(base)
             THEN [err |-> GxxKeyError("ERROR: Missing BaseDir component."),
                   path |-> <<>>]
             ELSE IF IsNone(base) THEN [err |-> ReplaceTypeError, path |-> <<>>]
             ELSE [err |-> NoError,
                   path |-> ReplaceAll(fmt, <<"{basedir}">>, Val(base))]

\* path.rstrip('\/')
RECURSIVE RStripSep(_)
RStripSep(s) ==
    IF s # <<>> /\ s[Len(s)] \in {"/", "\\"}
    THEN RStripSep(SubSeq(s, 1, Len(s) - 1)) ELSE s

\* the path without its {arch} component
BasePath(path_fmt) ==
    LET path == RStripSep(path_fmt)
    IN  ReplaceAll(ReplaceAll(ReplaceAll(path, <<"/", "{arch}">>, <<>>),
                              <<"\\", "{arch}">>, <<>>),
                   <<"{arch}">>, <<>>)

\* Machine architectures of a working tree: the list of the names, or the
\* blank text of the option (never None)
WorkingMachs(data) ==
    LET res == Val(Get(data, "Machs", Some(<<>>)))
    IN  IF Strip(res) # <<>> THEN SplitList(res) ELSE res

\* one iteration of the loop of gxx_parse_workings on a section tag.gxx.rev
\* (sections without changelog and docs options)
ParseWorking(sec, versions, keys) ==
    LET wtags == Split(ReplaceAll(Lower(sec.name), <<"+">>, <<"p">>), ".")
        tag   == wtags[1]
        gxx   == wtags[2]
        rev   == wtags[3]
        data  == sec.data
        gver  == gxx \o rev
        gname == VersionName(data)
        gkey  == IF gver \in DOMAIN versions THEN Some(gver)
                 ELSE KeyByName(keys, versions, Val(gname))
        key   == IF gxx = <<"g", "d", "v">> THEN tag \o rev ELSE tag \o gxx \o rev
        path_fmt == Lower(Val(Get(data, "WorkPathFmt", Some(DefaultWorkFmt))))
        root  == IF Has(data, "FullPath")
                 THEN WorkFullPathFmt(path_fmt, Val(Get(data, "FullPath", None)))
                 ELSE WorkPathFmt(path_fmt, Get(data, "WorkPath", None),
                                  Get(data, "BaseDir", None))
    IN  IF IsNone(gname)
        THEN [err |-> GxxKeyError("ERROR: Gaussian/Revision or Name must be provided."),
              key |-> key, entry |-> EmptyDict]
        ELSE IF IsNone(gkey)
        THEN [err |-> GxxKeyError("ERROR: Reference Gaussian version not found."),
              key |-> key, entry |-> EmptyDict]
        ELSE IF root.err # NoError
        THEN [err |-> root.err, key |-> key, entry |-> EmptyDict]
        ELSE [err |-> NoError, key |-> key,
              entry |-> [gref |-> Val(gkey),
                         path |-> root.path,
                         basepath |-> BasePath(root.path),
                         name |-> Val(gname),
                         ver  |-> Get(data, "Version", None),
                         date |-> Get(data, "Date", None),
                         mach |-> WorkingMachs(data),
                         pub  |-> SharedList(data),
                         auth |-> IF tag = <<"d", "e", "f">> THEN Some("System")
                                  ELSE None,
                         mail |-> IF tag = <<"d", "e", "f">> THEN Some("N/A")
                                  ELSE None,
                         clog |-> None,
                         docs |-> None]]

\* gxx_parse_workings: the loop over the sections that are not versions
RECURSIVE GxxParseWorkings(_, _, _, _)
GxxParseWorkings(sections, versions, keys, acc) ==
    IF sections = <<>> THEN acc
    ELSE LET sec == Head(sections)
         IN  IF GxxFormat(sec.name)
                \/ Len(Split(ReplaceAll(Lower(sec.name), <<"+">>, <<"p">>), ".")) # 3
             THEN GxxParseWorkings(Tail(sections), versions, keys, acc)
             ELSE LET r == ParseWorking(sec, versions, keys)
                  IN  IF r.err # NoError
                      THEN [err |-> r.err, workings |-> acc.workings]
                      ELSE GxxParseWorkings(
                               Tail(sections), versions, keys,
                               [err |-> NoError,
                                workings |-> (r.key :> r.entry) @@ acc.workings])

NoWorkings == [err |-> NoError, workings |-> EmptyDict]

\* Gaussian Keyword Aliases: {gxx[:3]: gxx for gxx in gxx_versions}
Aliases(keys, versions) ==
    [a \in {SubSeq(keys[i], 1, 3) : i \in 1..Len(keys)} |->
        keys[CHOOSE i \in 1..Len(keys) :
                 /\ SubSeq(keys[i], 1, 3) = a
                 /\ \A j \in (i + 1)..Len(keys) : SubSeq(keys[j], 1, 3) # a]]

AliasKey == <<"a", "l", "i", "a", "s">>

\* what gaussian.init prints before sys.exit(1)
VersionsFailedReport(msg) ==
    [head |-> "ERROR: Failed to get information on Gaussian versions",
     reason |-> msg]

NoDefaultReport ==
    Printed("ERROR: Default version of Gaussian not present in config files")

WorkingsFailedReport(msg) ==
    [head |-> "ERROR: Failed to get information on installed workings",
     reason |-> msg]

GxxInitFailed(rep) ==
    [code |-> Some(1), report |-> rep, versions |-> None, workings |-> None]

\* the second try block of gaussian.init and the aliases
GxxInitWorkings(v, w) ==
    IF w.err # NoError
    THEN IF w.err.exc = "KeyError"
         THEN GxxInitFailed(WorkingsFailedReport(w.err.msg))
         ELSE GxxInitFailed(Traceback(w.err))
    ELSE [code |-> None, report |-> NoReport,
          versions |-> Some((AliasKey :> Aliases(v.keys, v.versions))
                            @@ v.versions),
          workings |-> Some(w.workings)]

\* the first try block of gaussian.init and the test of the default version
GxxInitVersions(v, conf, default) ==
    IF v.err # NoError
    THEN IF v.err.exc = "KeyError"
         THEN GxxInitFailed(VersionsFailedReport(v.err.msg))
         ELSE GxxInitFailed(Traceback(v.err))
    ELSE IF default \notin DOMAIN v.versions
    THEN GxxInitFailed(NoDefaultReport)
    ELSE GxxInitWorkings(
             v, GxxParseWorkings(conf, v.versions, v.keys, NoWorkings))

\* gaussian.init after the configuration is read: the catalogs stored in
\* gtpar, or the exit status and the output
GxxInitResult(conf, default) ==
    GxxInitVersions(GxxParseVersions(conf, NoVersions), conf, default)

----------------------------------------------------------------------------
(* gxxtools.sub.gaussian: get_gxx_spec *)

\* gxxtools.data.GXX_ARCH_FLAGS
GXX_ARCH_FLAGS ==
    [a \in {"nehalem", "westmere"} |-> <<"intel64-nehalem">>]
    @@ [a \in {"sandybridge", "ivybridge"} |-> <<"intel64-sandybridge">>]
    @@ [a \in {"skylake", "cascadelake", "naples", "rome", "milan", "zen1",
               "zen2", "zen3"} |-> <<"intel64-haswell">>]
    @@ [a \in {"bulldozer"} |-> <<"amd64-istanbul">>]

UnknownVersion ==
    SysExit(2, "ERROR: Gaussian option neither keyword nor valid path.")

VersionDenied ==
    SysExit(3, "ERROR: User is not allowed to use this Gaussian version.")

WorkingDenied ==
    SysExit(3, "ERROR: User is not allowed to use this working tree.")

UnsupportedHardware ==
    SysExit(9, "INTERNAL ERROR: Unsupported hardware architecture.")

UnsupportedMach ==
    SysExit(2, "ERROR: Unsupported machine architecture in working.")

GxxPathUnresolved == SysExit(2, "ERROR: Gaussian path not fully resolved.")

WorkPathUnresolved == SysExit(2, "ERROR: Working path not fully resolved.")

WorkDirMissing == SysExit(2, "ERROR: working tree directory does not exits")

\* gtpar.DEBUG is read, and params.py does not define it
DebugUndefined == Raise("AttributeError", "DEBUG")

\* gver_info['pub'] on the dictionary of the aliases
NoPubKey == Raise("KeyError", "pub")

\* gver_info['gxx'] with gver_info = None
NoneSubscript == Raise("TypeError", "'NoneType' object is not subscriptable")

PathExists(e, p) == p \in e.dirs \cup e.files

\* os.path.split(p)[0]
DirName(p) ==
    IF \A i \in 1..Len(p) : p[i] # "/" THEN <<>>
    ELSE LET k == CHOOSE i \in 1..Len(p) :
                      p[i] = "/" /\ \A j \in (i + 1)..Len(p) : p[j] # "/"
         IN  IF k = 1 THEN <<"/">> ELSE SubSeq(p, 1, k - 1)

\* `os.path.exists(p) or gtpar.DEBUG`: the truth value, None when the
\* evaluation of gtpar.DEBUG raises
ExistsOrDebug(e, p) ==
    IF PathExists(e, p) THEN Some(TRUE) ELSE e.debug

\* the token after the aliases, and the entries it selects
SelectVersion(o, versions, workings) ==
    LET alias == versions[AliasKey]
        gver  == IF o.gxxver \in DOMAIN alias THEN alias[o.gxxver] ELSE o.gxxver
    IN  IF gver \in DOMAIN workings
        THEN [gver |-> gver, work_info |-> Some(workings[gver]),
              gver_info |-> Some(versions[workings[gver].gref])]
        ELSE IF gver \in DOMAIN versions
        THEN [gver |-> gver, work_info |-> None,
              gver_info |-> Some(versions[gver])]
        ELSE [gver |-> gver, work_info |-> None, gver_info |-> None]

\* Variant of CheckAccess: the list of the working tree is not consulted
CheckAccess_VersionOnly(sel, user) ==
    IF ~IsNone(sel.gver_info) /\ IsNone(sel.work_info) /\ sel.gver = AliasKey
    THEN NoPubKey
    ELSE IF ~IsNone(sel.gver_info) /\ ~IsNone(Val(sel.gver_info).pub)
            /\ ~InList(user, Val(Val(sel.gver_info).pub))
    THEN VersionDenied
    ELSE NoError

\* Check Access; the dictionary of the aliases, selected by the token
\* 'alias', has no 'pub' entry
CheckAccess(sel, user) ==
    IF ~IsNone(sel.gver_info) /\ IsNone(sel.work_info) /\ sel.gver = AliasKey
    THEN NoPubKey
    ELSE IF ~IsNone(sel.gver_info) /\ ~IsNone(Val(sel.gver_info).pub)
            /\ ~InList(user, Val(Val(sel.gver_info).pub))
    THEN VersionDenied
    ELSE IF ~IsNone(sel.work_info) /\ ~IsNone(Val(sel.work_info).pub)
            /\ ~InList(user, Val(Val(sel.work_info).pub))
    THEN WorkingDenied
    ELSE NoError

\* get_gxx_arch: the directory of the architecture of the node family
GetGxxArch(fam) ==
    IF fam.cpu_arch \in DOMAIN GXX_ARCH_FLAGS
    THEN [err |-> NoError, arch |-> GXX_ARCH_FLAGS[fam.cpu_arch]]
    ELSE [err |-> UnsupportedHardware, arch |-> <<>>]

\* the commands that set the environment for the root directory gxxroot
PathCmds(gxxroot) ==
    << [op |-> "export GAUSS_EXEDIR", arg |-> gxxroot],
       [op |-> "export GAUSS_ARCHDIR", arg |-> gxxroot],
       [op |-> "export PATH", arg |-> gxxroot],
       [op |-> "export LD_LIBRARY_PATH", arg |-> gxxroot] >>

\* Definition of Gaussian executable: the root directory of a version
\* given by a path
VersionRoot(info, arch) ==
    IF ~IsNone(info.mach) /\ ~InList(arch, Val(info.mach))
    THEN [err |-> UnsupportedMach, root |-> <<>>]
    ELSE LET root0 == IF ~IsNone(info.mach)
                      THEN ReplaceAll(info.path, <<"{arch}">>, arch)
                      ELSE info.path
             root  == ReplaceAll(root0, <<"{gxx}">>, info.gxx)
         IN  IF IsSubstring(<<"{arch}">>, root)
             THEN [err |-> GxxPathUnresolved, root |-> <<>>]
             ELSE [err |-> NoError, root |-> root]

\* the directory of a working tree (its `mach` is never None)
WorkingRoot(info, arch) ==
    IF ~InList(arch, info.mach) THEN [err |-> UnsupportedMach, root |-> <<>>]
    ELSE LET root == ReplaceAll(info.path, <<"{arch}">>, arch)
         IN  IF IsSubstring(<<"{arch}">>, root)
             THEN [err |-> WorkPathUnresolved, root |-> <<>>]
             ELSE [err |-> NoError, root |-> root]

\* Paths built, complete check on workings with user options: the error of
\* the first -w directory that cannot be used
RECURSIVE CheckWorkDirs(_, _)
CheckWorkDirs(e, dirs) ==
    IF dirs = <<>> THEN NoError
    ELSE LET ok == ExistsOrDebug(e, Head(dirs))
         IN  IF IsNone(ok) THEN DebugUndefined
             ELSE IF ~Val(ok) THEN WorkDirMissing
             ELSE CheckWorkDirs(e, Tail(dirs))

GxxFailure(e) == [err |-> e, gxx |-> <<>>, cmds |-> <<>>, exedir |-> <<>>]

GetGxxSpec(o, versions, workings, fam, e) ==
    LET sel     == SelectVersion(o, versions, workings)
        known   == ~IsNone(sel.gver_info)
        found   == ExistsOrDebug(e, sel.gver)
        is_path == ~known
        root0   == IF sel.gver \in e.dirs THEN sel.gver
                   ELSE DirName(sel.gver)
        access  == CheckAccess(sel, e.user)
    IN  IF ~known /\ IsNone(found) THEN GxxFailure(DebugUndefined)
        ELSE IF ~known /\ ~Val(found) THEN GxxFailure(UnknownVersion)
        ELSE IF access # NoError THEN GxxFailure(access)
        ELSE
        LET info    == Val(sel.gver_info)
            module  == ~is_path /\ "module" \in DOMAIN info
            a       == GetGxxArch(fam)
            vroot   == IF known /\ ~module THEN VersionRoot(info, a.arch)
                       ELSE [err |-> NoError, root |-> root0]
            wroot   == IF ~IsNone(sel.work_info)
                       THEN WorkingRoot(Val(sel.work_info), a.arch)
                       ELSE [err |-> NoError, root |-> <<>>]
            cmds    == IF module
                       THEN << [op |-> "module add", arg |-> info.module] >>
                       ELSE PathCmds(vroot.root)
            gxxwork == IF wroot.root # <<>> THEN <<wroot.root>> ELSE <<>>
            wdirs   == IF IsNone(o.gxxwrk) THEN <<>> ELSE Val(o.gxxwrk)
            wcheck  == CheckWorkDirs(e, wdirs)
        IN  IF known /\ ~module /\ a.err # NoError THEN GxxFailure(a.err)
            ELSE IF vroot.err # NoError THEN GxxFailure(vroot.err)
            ELSE IF ~IsNone(sel.work_info) /\ a.err # NoError
            THEN GxxFailure(a.err)
            ELSE IF wroot.err # NoError THEN GxxFailure(wroot.err)
            ELSE IF wcheck # NoError THEN GxxFailure(wcheck)
            ELSE IF ~known THEN GxxFailure(NoneSubscript)
            ELSE [err |-> NoError, gxx |-> info.gxx, cmds |-> cmds,
                  exedir |-> gxxwork \o wdirs]

----------------------------------------------------------------------------
(* gxxtools.sub: check_gjf *)

\* a file argument of check_gjf: None, False, or a name
FileNone == [kind |-> "None"]

FileFalse == [kind |-> "False"]

FileName(name) == [kind |-> "str", name |-> name]

\* `file is not None and file`
Given(f) == f.kind = "str" /\ f.name # <<>>

\* s.startswith(prefix)
StartsWith(s, prefix) ==
    Len(s) >= Len(prefix) /\ SubSeq(s, 1, Len(prefix)) = prefix

MemHdr == <<"%", "M", "e", "m", "=">>

NProcHdr == <<"%", "N", "P", "r", "o", "c", "S", "h", "a", "r", "e", "d", "=">>

ChkHdr == <<"%", "C", "h", "k", "=">>

RwfHdr == <<"%", "R", "w", "f", "=">>

\* write_hdr: the lines of the Link0 header
WriteHdr(dat_P, dat_M, file_chk, file_rwf) ==
    (IF IsNone(dat_M) THEN <<>> ELSE << MemHdr \o Val(dat_M) >>)
    \o (IF IsNone(dat_P) THEN <<>> ELSE << NProcHdr \o PyStr(Val(dat_P)) >>)
    \o (IF Given(file_chk) THEN << ChkHdr \o file_chk.name >> ELSE <<>>)
    \o (IF Given(file_rwf) THEN << RwfHdr \o file_rwf.name >> ELSE <<>>)

PointsOff == <<"points", ".", "off">>

TestFChk == <<"Test", ".", "FChk">>

\* process_route on a route made of the words opt, geomview, FChk, fchk,
\* freq=fc, freq=readfcht, freq=readanh and freq=anharm: the searches of
\* the regular expressions, and the two-element entries of extra_cp
ProcessRoute(route) ==
    LET has(w) == InList(w, route)
    IN  [use717 |-> has("freq=readanh") \/ has("freq=anharm"),
         use718 |-> has("freq=fc") \/ has("freq=readfcht"),
         extra_cp |->
            (IF has("geomview") THEN << <<"cpfrom", PointsOff>> >> ELSE <<>>)
            \o (IF has("FChk") THEN << <<"cpfrom", TestFChk>> >> ELSE <<>>)]

Link1Line == <<"-", "-", "l", "i", "n", "k", "1", "-", "-">>

NoSaveLine == <<"%", "n", "o", "s", "a", "v", "e">>

\* ls_exts, without the dot, and the extensions that start with one of them
ListedExts == {"chk", "dat", "log", "out", "fch", "rwf", "fchk"}

\* a line of the rest of the input that names a file to copy: one word
\* with a dot after its first character and a listed extension
NamesFile(line_lo, line) ==
    /\ \A i \in 1..Len(line_lo) : line_lo[i] # " "
    /\ \E i \in 2..Len(line_lo) : line_lo[i] = "."
    /\ line_lo[1] # "."
    /\ LET s == Strip(line)
       IN  Len(s) >= 2 /\ s[Len(s) - 1] = "." /\ s[Len(s)] \in ListedExts

IndexError == Raise("IndexError", "list index out of range")

IntValueError == Raise("ValueError", "invalid literal for int() with base 10")

UnpackError == Raise("ValueError", "not enough values to unpack")

\* the state of check_gjf before the first line is read
GjfStart(dat_P, dat_M, file_chk, file_rwf) ==
    [out      |-> WriteHdr(dat_P, dat_M, file_chk, file_rwf),
     nprocs   |-> dat_P,
     mem      |-> dat_M,
     ls_chks  |-> IF Given(file_chk) THEN << <<0, file_chk.name>> >> ELSE <<>>,
     ls_rwfs  |-> IF Given(file_rwf) THEN <<file_rwf.name>> ELSE <<>>,
     ls_files |-> <<>>,
     ops_copy |-> <<>>,
     newlnk   |-> TRUE,
     inroute  |-> FALSE,
     route    |-> <<>>,
     use717   |-> FALSE,
     use718   |-> FALSE,
     err      |-> NoError]

\* a Link0 line other than %nosave
GjfLink0(st, line, line_lo, dat_P, dat_M, file_chk, file_rwf) ==
    LET parts  == Split(line, "=")
        keyval == Strip(parts[2])
        kept   == [st EXCEPT !.out = Append(@, line)]
    IN  IF Len(parts) < 2 THEN [st EXCEPT !.err = IndexError]
        ELSE IF StartsWith(line_lo, <<"%", "c", "h", "k">>)
        THEN IF file_chk.kind = "None"
             THEN [kept EXCEPT !.ls_chks = Append(@, <<0, keyval>>)]
             ELSE st
        ELSE IF StartsWith(line_lo, <<"%", "o", "l", "d", "c", "h", "k">>)
        THEN [kept EXCEPT !.ls_chks = Append(@, <<1, keyval>>)]
        ELSE IF StartsWith(line_lo, <<"%", "r", "w", "f">>)
        THEN IF file_rwf.kind # "False"
             THEN [kept EXCEPT !.ls_rwfs = Append(@, keyval)]
             ELSE st
        ELSE IF StartsWith(line_lo, <<"%", "m", "e", "m">>)
        THEN IF IsNone(dat_M) THEN [kept EXCEPT !.mem = Some(keyval)]
             ELSE st
        ELSE IF StartsWith(line_lo, <<"%", "n", "p", "r", "o", "c">>)
        THEN IF IsNone(dat_P)
             THEN IF IsNone(PyInt(keyval))
                  THEN [st EXCEPT !.err = IntValueError]
                  ELSE [kept EXCEPT !.nprocs = PyInt(keyval)]
             ELSE st
        ELSE kept

\* Variant of GjfLine: no header is written after --Link1--
GjfLine_HeaderOnce(st, line, dat_P, dat_M, file_chk, file_rwf) ==
    LET line_lo == Lower(Strip(line))
        kept    == [st EXCEPT !.out = Append(@, line)]
    IN  IF line_lo = <<>>
        THEN IF st.inroute
             THEN LET r == ProcessRoute(st.route)
                  IN  [kept EXCEPT !.use717 = r.use717, !.use718 = r.use718,
                                   !.ops_copy = @ \o r.extra_cp,
                                   !.inroute = FALSE]
             ELSE kept
        ELSE IF line_lo = Link1Line
        THEN [st EXCEPT !.out = Append(@, line),
                        !.newlnk = TRUE, !.route = <<>>,
                        !.use717 = FALSE, !.use718 = FALSE]
        ELSE IF StartsWith(line_lo, <<"%">>)
        THEN IF line_lo # NoSaveLine
             THEN GjfLink0(st, line, line_lo, dat_P, dat_M, file_chk, file_rwf)
             ELSE kept
        ELSE IF (StartsWith(line_lo, <<"#">>) /\ st.newlnk) \/ st.inroute
        THEN [kept EXCEPT !.newlnk = FALSE, !.inroute = TRUE,
                          !.route = @ \o <<" ">> \o Strip(line)]
        ELSE IF (st.use717 \/ st.use718) /\ NamesFile(line_lo, line)
        THEN [kept EXCEPT !.ls_files = Append(@, Strip(line))]
        ELSE kept

\* one iteration of the loop over the lines of the reference input
GjfLine(st, line, dat_P, dat_M, file_chk, file_rwf) ==
    LET line_lo == Lower(Strip(line))
        kept    == [st EXCEPT !.out = Append(@, line)]
    IN  IF line_lo = <<>>
        THEN IF st.inroute
             THEN LET r == ProcessRoute(st.route)
                  IN  [kept EXCEPT !.use717 = r.use717, !.use718 = r.use718,
                                   !.ops_copy = @ \o r.extra_cp,
                                   !.inroute = FALSE]
             ELSE kept
        ELSE IF line_lo = Link1Line
        THEN [st EXCEPT !.out = Append(@, line)
                                \o WriteHdr(dat_P, dat_M, file_chk, file_rwf),
                        !.newlnk = TRUE, !.route = <<>>,
                        !.use717 = FALSE, !.use718 = FALSE]
        ELSE IF StartsWith(line_lo, <<"%">>)
        THEN IF line_lo # NoSaveLine
             THEN GjfLink0(st, line, line_lo, dat_P, dat_M, file_chk, file_rwf)
             ELSE kept
        ELSE IF (StartsWith(line_lo, <<"#">>) /\ st.newlnk) \/ st.inroute
        THEN [kept EXCEPT !.newlnk = FALSE, !.inroute = TRUE,
                          !.route = @ \o <<" ">> \o Strip(line)]
        ELSE IF (st.use717 \/ st.use718) /\ NamesFile(line_lo, line)
        THEN [kept EXCEPT !.ls_files = Append(@, Strip(line))]
        ELSE kept

\* the loop over the lines, left at the first exception
RECURSIVE GjfLines(_, _, _, _, _, _)
GjfLines(st, lines, dat_P, dat_M, file_chk, file_rwf) ==
    IF lines = <<>> \/ st.err # NoError THEN st
    ELSE GjfLines(GjfLine(st, Head(lines), dat_P, dat_M, file_chk, file_rwf),
                  Tail(lines), dat_P, dat_M, file_chk, file_rwf)

\* the elements of set(items), in the order of their first occurrence
RECURSIVE Distinct(_)
Distinct(items) ==
    IF items = <<>> THEN <<>>
    ELSE LET rest == Distinct(SubSeq(items, 1, Len(items) - 1))
             last == items[Len(items)]
         IN  IF InList(last, rest) THEN rest ELSE Append(rest, last)

\* os.path.exists(name) in the directory of the input file
FileExists(e, rootdir, name) ==
    PathExists(e, name) \/ PathExists(e, rootdir \o <<"/">> \o name)

\* Copy files for CHK
RECURSIVE CopyChks(_, _, _)
CopyChks(e, rootdir, chks) ==
    IF chks = <<>> THEN <<>>
    ELSE LET oper == Head(chks)[1]
             chk  == Head(chks)[2]
         IN  (IF oper \in {0, 1} /\ FileExists(e, rootdir, chk)
              THEN << <<"cpto", chk, rootdir>> >> ELSE <<>>)
             \o (IF oper \in {0, 2}
                 THEN << <<"cpfrom", chk, rootdir>> >> ELSE <<>>)
             \o CopyChks(e, rootdir, Tail(chks))

RECURSIVE CopyRwfs(_, _, _)
CopyRwfs(e, rootdir, rwfs) ==
    IF rwfs = <<>> THEN <<>>
    ELSE (IF FileExists(e, rootdir, Head(rwfs))
          THEN << <<"cpto", Head(rwfs), rootdir>> >> ELSE <<>>)
         \o << <<"cpfrom", Head(rwfs), rootdir>> >>
         \o CopyRwfs(e, rootdir, Tail(rwfs))

RECURSIVE CopyFiles(_, _, _)
CopyFiles(e, rootdir, files) ==
    IF files = <<>> THEN <<>>
    ELSE (IF FileExists(e, rootdir, Head(files))
          THEN << <<"cpto", Head(files), rootdir>> >> ELSE <<>>)
         \o CopyFiles(e, rootdir, Tail(files))

\* check_gjf after the loop: the list of the copies, and the loop that
\* prints them and unpacks each entry in three
GjfCopies(st, e, rootdir) ==
    LET ops == st.ops_copy
               \o CopyChks(e, rootdir, Distinct(st.ls_chks))
               \o CopyRwfs(e, rootdir, Distinct(st.ls_rwfs))
               \o CopyFiles(e, rootdir, Distinct(st.ls_files))
    IN  IF st.err # NoError THEN st
        ELSE IF \E i \in 1..Len(ops) : Len(ops[i]) # 3
        THEN [st EXCEPT !.ops_copy = ops, !.err = UnpackError]
        ELSE [st EXCEPT !.ops_copy = ops]

\* check_gjf: the exception raised, or nprocs, mem and the list of the
\* copies, with the lines written to the new input
CheckGjf(lines, dat_P, dat_M, file_chk, file_rwf, rootdir, e) ==
    CHOOSE r \in
        { [err |-> st.err, nprocs |-> st.nprocs, mem |-> st.mem,
           ops_copy |-> st.ops_copy, out |-> st.out] :
          st \in { GjfCopies(read, e, rootdir) :
                   read \in { GjfLines(start, lines, dat_P, dat_M, file_chk,
                                       file_rwf) :
                              start \in { GjfStart(dat_P, dat_M, file_chk,
                                                   file_rwf) } } } } : TRUE

----------------------------------------------------------------------------
(* gxxtools.sub: parse_options, the files of the job *)

\* sys.exit() without argument: SystemExit(None), exit status 0
BareExit(msg) == [exc |-> "SystemExit", msg |-> msg, code |-> None]

\* exit status of the process left by the exception e
ExitStatus(e) ==
    IF e.exc = "SystemExit"
    THEN (IF IsNone(e.code) THEN 0 ELSE Val(e.code))
    ELSE 1

\* what the process printed when it was left by the exception e
ExitReport(e) ==
    IF e.exc = "SystemExit" THEN Printed(e.msg) ELSE Traceback(e)

\* truth value of an optional str
Truthy(o) == ~IsNone(o) /\ Val(o) # <<>>

\* os.getcwd() when the process starts
Cwd == <<"/", "h">>

\* os.path.abspath(p)
AbsPath(p) == IF p # <<>> /\ p[1] = "/" THEN p ELSE Cwd \o <<"/">> \o p

\* index of the last occurrence of c in p, 0 if there is none
LastIndex(p, c) ==
    IF \A i \in 1..Len(p) : p[i] # c THEN 0
    ELSE CHOOSE i \in 1..Len(p) : p[i] = c /\ \A j \in (i + 1)..Len(p) : p[j] # c

\* os.path.basename(p)
BaseName(p) == SubSeq(p, LastIndex(p, "/") + 1, Len(p))

\* os.path.splitext(p)[0]
SplitExtBase(p) ==
    LET dot == LastIndex(p, ".")
    IN  IF dot > LastIndex(p, "/") + 1 THEN SubSeq(p, 1, dot - 1) ELSE p

\* [base + ext for base in filebase]
WithExt(filebase, ext) ==
    [i \in 1..Len(filebase) |-> filebase[i] \o <<".", ext>>]

\* set(names) & set(argopts.gxxl0K)
Keeps(keep, names) == \E i \in 1..Len(keep) : keep[i] \in names

FileList(items) == [kind |-> "list", items |-> items]

\* Definition of Gaussian input file: the first file that does not exist
\* ends the process through sys.exit()
InputFiles(o, e) ==
    IF \E i \in 1..Len(o.infile) : ~PathExists(e, o.infile[i])
    THEN [err |-> BareExit("ERROR: Cannot find Gaussian input file"),
          val |-> EmptyDict]
    ELSE [err |-> NoError,
          val |-> [infiles  |-> o.infile,
                   n_input  |-> Len(o.infile),
                   ginfiles |-> [i \in 1..Len(o.infile) |-> AbsPath(o.infile[i])],
                   filebase |-> [i \in 1..Len(o.infile) |->
                                    SplitExtBase(AbsPath(o.infile[i]))]]]

\* Definition of Gaussian output file
LogFiles(o, filebase) ==
    IF Truthy(o.gxxlog)
    THEN IF Len(o.infile) > 1
         THEN [err |-> BareExit("ERROR: Output file not supported for a multi-job"),
               val |-> <<>>]
         ELSE [err |-> NoError, val |-> <<AbsPath(Val(o.gxxlog))>>]
    ELSE [err |-> NoError, val |-> WithExt(filebase, "log")]

\* CHECKPOINT FILE
ChkFiles(o, filebase) ==
    IF Truthy(o.gxxchk)
    THEN IF Len(o.infile) > 1
         THEN [err |-> BareExit("ERROR: Checkpoint file not supported for a multi-job"),
               val |-> FileNone]
         ELSE [err |-> NoError, val |-> FileList(<<AbsPath(Val(o.gxxchk))>>)]
    ELSE IF ~Keeps(o.gxxl0K, {"c", "chk", "a", "all"})
    THEN [err |-> NoError, val |-> FileList(WithExt(filebase, "chk"))]
    ELSE [err |-> NoError, val |-> FileNone]

\* READ-WRITE FILE
RwfFiles(o, filebase) ==
    IF Truthy(o.gxxrwf)
    THEN IF Lower(Val(o.gxxrwf)) = <<"a", "u", "t", "o">>
         THEN [err |-> NoError, val |-> FileList(WithExt(filebase, "rwf"))]
         ELSE IF Len(o.infile) > 1
         THEN [err |-> BareExit("ERROR: RWF file not supported for a multi-job"),
               val |-> FileNone]
         ELSE [err |-> NoError, val |-> FileList(<<AbsPath(Val(o.gxxrwf))>>)]
    ELSE IF Keeps(o.gxxl0K, {"r", "rwf", "a", "all"})
    THEN [err |-> NoError, val |-> FileNone]
    ELSE [err |-> NoError, val |-> FileFalse]

\* Job name, compliant with the restrictions of PBS
JobName(o, filebase) ==
    LET name0 == IF Truthy(o.job) THEN Val(o.job)
                 ELSE IF Len(o.infile) > 1 THEN <<"multi-job">>
                 ELSE BaseName(filebase[1])
        name1 == IF name0[1] \in DigitSet THEN <<"a">> \o name0 ELSE name0
    IN  IF Len(name1) > 15 THEN SubSeq(name1, 1, 15) ELSE name1

\* Mail specification
MailTo(o, e) ==
    LET addr == IF Truthy(o.mailto) THEN o.mailto
                ELSE IF Truthy(e.mailaddr)
                THEN Some(ReplaceAll(Val(e.mailaddr), <<"{user}">>, e.user))
                ELSE None
    IN  IF ~o.mail THEN [err |-> NoError, val |-> <<>>]
        ELSE IF IsNone(addr)
        THEN [err |-> SysExit(1, "ERROR: Cannot define email address."),
              val |-> <<>>]
        ELSE IF \E i \in 1..Len(Val(addr)) :
                    Val(addr)[i] \in {"{", "}", "{user}", "{domain}"}
        THEN [err |-> SysExit(1, "ERROR: Could not fully resolve the email address."),
              val |-> <<>>]
        ELSE [err |-> NoError, val |-> Val(addr)]

FilesFailure(e) == [err |-> e, options |-> EmptyDict]

\* parse_options after get_gxx_spec: the first exit, or the options
ParseFilesMail(opt0, o, e, jobname) ==
    LET mail == MailTo(o, e)
    IN  IF mail.err # NoError THEN FilesFailure(mail.err)
        ELSE [err |-> NoError,
              options |-> [jobname |-> jobname, mailto |-> mail.val] @@ opt0]

ParseFilesRwf(opt0, o, e, filebase) ==
    LET rwf == RwfFiles(o, filebase)
    IN  IF rwf.err # NoError THEN FilesFailure(rwf.err)
        ELSE ParseFilesMail([rwffiles |-> rwf.val] @@ opt0, o, e,
                            JobName(o, filebase))

ParseFilesChk(opt0, o, e, filebase) ==
    LET chk == ChkFiles(o, filebase)
    IN  IF chk.err # NoError THEN FilesFailure(chk.err)
        ELSE ParseFilesRwf([chkfiles |-> chk.val] @@ opt0, o, e, filebase)

ParseFilesLog(opt0, o, e, filebase) ==
    LET log == LogFiles(o, filebase)
    IN  IF log.err # NoError THEN FilesFailure(log.err)
        ELSE ParseFilesChk([logfiles |-> log.val] @@ opt0, o, e, filebase)

ParseFiles(opt0, o, e) ==
    LET inp == InputFiles(o, e)
    IN  IF inp.err # NoError THEN FilesFailure(inp.err)
        ELSE ParseFilesLog(inp.val @@ opt0, o, e, inp.val.filebase)

----------------------------------------------------------------------------
(* gxxtools.sub: set_resources and the loop of main over the input files *)

GB == <<"G", "B">>

MB == <<"M", "B">>

\* number of MB in one GB
MBPerGB == 1024

\* hpc.bytes_units(size, 0, False, unit): sizes are counted in GB
BytesUnits(size, unit) ==
    IF unit = "g" THEN NatStr(size) \o GB ELSE NatStr(size * MBPerGB) \o MB

\* hpc.convert_storage(text): the size, None when the text is no size
ConvertStorage(text) ==
    LET n == Len(text) - 2
    IN  IF n < 1 \/ \E i \in 1..n : text[i] \notin DigitSet THEN None
        ELSE IF SubSeq(text, n + 1, n + 2) = GB
        THEN Some(DigitsVal(SubSeq(text, 1, n)))
        ELSE IF SubSeq(text, n + 1, n + 2) = MB
        THEN Some(DigitsVal(SubSeq(text, 1, n)) \div MBPerGB)
        ELSE None

TooManyJobs ==
    Raise("ValueError",
          "ERROR: Too many parallel jobs for the number of processing units")

\* Variant of ResourceProcs: the share of a parallel job is rounded up
ResourceProcs_RoundedUp(opt, qncpus) ==
    IF Keeps(opt.gxxlnk0, {"p", "proc", "a", "all"})
    THEN [err |-> NoError, nprocs |-> None]
    ELSE IF opt.n_input > 1 /\ opt.multijob = "parallel"
    THEN IF qncpus.base \div opt.n_input = 0
         THEN [err |-> TooManyJobs, nprocs |-> None]
         ELSE [err |-> NoError,
               nprocs |-> Some((qncpus.base + opt.n_input - 1)
                               \div opt.n_input)]
    ELSE [err |-> NoError, nprocs |-> Some(qncpus.base)]

\* set_resources: number of processors of one job
ResourceProcs(opt, qncpus) ==
    IF Keeps(opt.gxxlnk0, {"p", "proc", "a", "all"})
    THEN [err |-> NoError, nprocs |-> None]
    ELSE IF opt.n_input > 1 /\ opt.multijob = "parallel"
    THEN IF qncpus.base \div opt.n_input = 0
         THEN [err |-> TooManyJobs, nprocs |-> None]
         ELSE [err |-> NoError, nprocs |-> Some(qncpus.base \div opt.n_input)]
    ELSE [err |-> NoError, nprocs |-> Some(qncpus.base)]

\* set_resources: memory of one job, int(qmem * min(1., nprocs/qncpus))
ResourceMem(opt, qncpus, qmem, np) ==
    IF Keeps(opt.gxxlnk0, {"m", "mem", "a", "all"}) THEN None
    ELSE LET size == IF IsNone(np) \/ Val(np) >= qncpus.base
                     THEN qmem.base
                     ELSE (qmem.base * Val(np)) \div qncpus.base
             text == BytesUnits(size, "g")
         IN  IF text[1] = "0" THEN Some(BytesUnits(size, "m")) ELSE Some(text)

SetResources(opt, qncpus, qmem) ==
    LET p == ResourceProcs(opt, qncpus)
    IN  [err |-> p.err, nprocs |-> p.nprocs,
         mem |-> ResourceMem(opt, qncpus, qmem, p.nprocs)]

\* `data` is read in main and only set when check_gjf is called
DataUndefined == Raise("NameError", "name 'data' is not defined")

NoneOperand == Raise("TypeError", "unsupported operand type(s): 'NoneType'")

\* convert_storage on a text that is no size (raised by hpcnodes)
NotAStorage == Raise("ValueError", "convert_storage")

TooManyProcs ==
    SysExit(1, "ERROR: Too many processors required for the available resources.")

MemoryExceeded == BareExit("ERROR: Requested memory exceeds available resources")

\* the file argument of check_gjf for the input of index i
FileArg(files, i) ==
    IF files.kind = "list" /\ files.items # <<>>
    THEN FileName(BaseName(files.items[i]))
    ELSE IF files.kind = "list" THEN FileName(<<>>)
    ELSE files

\* the totals of main before the first input file
NoTotals ==
    [err |-> NoError, full_P |-> 0, full_M |-> 0, ops_copy |-> <<>>,
     gjf_new |-> <<>>]

\* Variant of AddJob: the totals of a parallel job are the maxima too
AddJob_AlwaysMax(acc, multijob, r) ==
    LET size == ConvertStorage(Val(r.mem))
        done == [acc EXCEPT !.ops_copy = @ \o r.ops_copy,
                            !.gjf_new = Append(@, r.out)]
    IN  IF IsNone(r.nprocs) THEN [acc EXCEPT !.err = NoneOperand]
        ELSE IF IsNone(r.mem) \/ IsNone(size) THEN [acc EXCEPT !.err = NotAStorage]
        ELSE [done EXCEPT !.full_P = Max(@, Val(r.nprocs)),
                          !.full_M = Max(@, Val(size))]

\* full_P and full_M after the input file that gave (dat_P, dat_M)
AddJob(acc, multijob, r) ==
    LET size == ConvertStorage(Val(r.mem))
        done == [acc EXCEPT !.ops_copy = @ \o r.ops_copy,
                            !.gjf_new = Append(@, r.out)]
    IN  IF IsNone(r.nprocs) THEN [acc EXCEPT !.err = NoneOperand]
        ELSE IF IsNone(r.mem) \/ IsNone(size) THEN [acc EXCEPT !.err = NotAStorage]
        ELSE IF multijob = "parallel"
        THEN [done EXCEPT !.full_P = @ + Val(r.nprocs),
                          !.full_M = @ + Val(size)]
        ELSE [done EXCEPT !.full_P = Max(@, Val(r.nprocs)),
                          !.full_M = Max(@, Val(size))]

\* one iteration of `for index, infile in enumerate(options['ginfiles'])`
MainFile(acc, opt, i, dat_P, dat_M, e) ==
    IF ~IsNone(opt.expert) /\ Val(opt.expert) > 0
    THEN [acc EXCEPT !.err = DataUndefined]
    ELSE CHOOSE next \in
             { (IF r.err # NoError THEN [acc EXCEPT !.err = r.err]
                ELSE AddJob(acc, opt.multijob, r)) :
               r \in { CheckGjf(e.gjf[opt.infiles[i]], dat_P, dat_M,
                                FileArg(opt.chkfiles, i),
                                FileArg(opt.rwffiles, i),
                                DirName(opt.ginfiles[i]), e) } } : TRUE

RECURSIVE MainFiles(_, _, _, _, _, _)
MainFiles(acc, opt, i, dat_P, dat_M, e) ==
    IF i > Len(opt.ginfiles) \/ acc.err # NoError THEN acc
    ELSE MainFiles(MainFile(acc, opt, i, dat_P, dat_M, e), opt, i + 1,
                   dat_P, dat_M, e)

\* the tests of the totals after the loop of main
CheckTotals(acc, qncpus, qmem) ==
    IF acc.err # NoError THEN acc
    ELSE IF acc.full_P > qncpus.base THEN [acc EXCEPT !.err = TooManyProcs]
    ELSE IF acc.full_M > qmem.base THEN [acc EXCEPT !.err = MemoryExceeded]
    ELSE acc

----------------------------------------------------------------------------
(* main and parse_options around the resolvers *)

\* gaussian.init, from the configuration read by ConfigParser
GxxInit ==
    /\ step = "init"
    /\ LET r == GxxInitResult(gconf, env.gxx_default)
       IN  /\ gxx_versions' = r.versions
           /\ workings_info' = r.workings
           /\ exit_code' = r.code
           /\ report' = r.report
           /\ step' = (IF IsNone(r.code) THEN "options" ELSE "exit")
           /\ stage' = (IF IsNone(r.code) THEN 4 ELSE stage)
    /\ UNCHANGED archVars
    /\ UNCHANGED <<gconf, gxx_spec, options, jobVars, outcomes, libcall>>

MissingInputReport == Printed("ERROR: Missing Gaussian input file")

MachinesReport == Printed("List of available HPC Nodes")

\* parse_options up to the queue specifications: query options, number of
\* input files, kind of multi-job
ParseOptionsHead ==
    /\ step = "options"
    /\ IF opts.mach
       THEN /\ step' = "exit" /\ exit_code' = Some(0)
            /\ report' = MachinesReport
            /\ UNCHANGED options
       ELSE IF Len(opts.infile) = 0
       THEN /\ step' = "exit" /\ exit_code' = Some(2)
            /\ report' = MissingInputReport
            /\ UNCHANGED options
       ELSE /\ step' = "arch"
            /\ options' = [gxxlnk0  |-> opts.gxxl0K,
                            expert   |-> opts.expert,
                            multijob |->
                              IF IsNone(opts.multi)
                              THEN (IF Len(opts.infile) > 1 THEN "serial"
                                    ELSE "no")
                              ELSE Val(opts.multi)]
            /\ UNCHANGED <<exit_code, report>>
    /\ UNCHANGED archVars
    /\ UNCHANGED <<gconf, gxx_versions, workings_info, gxx_spec, jobVars>>
    /\ UNCHANGED libVars

\* parse_options: Gaussian specifications
CallGxxSpec ==
    /\ step = "gxx"
    /\ LET r == GetGxxSpec(opts, Val(gxx_versions), Val(workings_info),
                           Val(node_family), env)
       IN  IF r.err = NoError
           THEN /\ gxx_spec' = Some([gxx |-> r.gxx, cmds |-> r.cmds,
                                     exedir |-> r.exedir])
                /\ step' = "files"
                /\ UNCHANGED <<exit_code, report>>
           ELSE /\ step' = "exit"
                /\ exit_code' = Some(IF r.err.exc = "SystemExit"
                                     THEN Val(r.err.code) ELSE 1)
                /\ report' = (IF r.err.exc = "SystemExit"
                              THEN Printed(r.err.msg) ELSE Traceback(r.err))
                /\ UNCHANGED gxx_spec
    /\ UNCHANGED archVars
    /\ UNCHANGED <<gconf, gxx_versions, workings_info, options, jobVars>>
    /\ UNCHANGED libVars

\* parse_options after the Gaussian specifications: input, output and
\* internal files, job name, mail
ParseOptionsFiles ==
    /\ step = "files"
    /\ LET r == ParseFiles(options, opts, env)
       IN  IF r.err = NoError
           THEN /\ options' = r.options
                /\ step' = "resources"
                /\ UNCHANGED <<exit_code, report>>
           ELSE /\ step' = "exit"
                /\ exit_code' = Some(ExitStatus(r.err))
                /\ report' = ExitReport(r.err)
                /\ UNCHANGED options
    /\ UNCHANGED archVars
    /\ UNCHANGED <<gxxVars, jobVars>>
    /\ UNCHANGED libVars

InsufficientReport(msg) ==
    [head |-> "ERROR: Insufficient resources to run job", reason |-> msg]

\* main: Resources definition
CallSetResources ==
    /\ step = "resources"
    /\ LET r == SetResources(options, maxcpu, maxmem)
       IN  IF r.err = NoError
           THEN /\ main_nprocs' = r.nprocs
                /\ main_mem' = r.mem
                /\ step' = "inputs"
                /\ UNCHANGED <<exit_code, report>>
           ELSE /\ step' = "exit"
                /\ exit_code' = Some(1)
                /\ report' = InsufficientReport(r.err.msg)
                /\ UNCHANGED <<main_nprocs, main_mem>>
    /\ UNCHANGED archVars
    /\ UNCHANGED <<gxxVars, options, full_P, full_M, ops_copy, gjf_new>>
    /\ UNCHANGED libVars

\* main: Check input and build list of relevant data, then the tests of
\* the totals
CheckInputs ==
    /\ step = "inputs"
    /\ \E acc \in { CheckTotals(sum, maxcpu, maxmem) :
                     sum \in { MainFiles(NoTotals, options, 1, main_nprocs,
                                         main_mem, env) } } :
           /\ full_P' = acc.full_P
           /\ full_M' = acc.full_M
           /\ ops_copy' = acc.ops_copy
           /\ gjf_new' = acc.gjf_new
           /\ IF acc.err = NoError
              THEN /\ main_nprocs' = Some(acc.full_P)
                   /\ main_mem' = Some(BytesUnits(acc.full_M, "g"))
                   /\ step' = "submit"
                   /\ UNCHANGED <<exit_code, report>>
              ELSE /\ step' = "exit"
                   /\ exit_code' = Some(ExitStatus(acc.err))
                   /\ report' = ExitReport(acc.err)
                   /\ UNCHANGED <<main_nprocs, main_mem>>
    /\ UNCHANGED archVars
    /\ UNCHANGED <<gxxVars, options>>
    /\ UNCHANGED libVars

Next ==
    \/ GxxInit
    \/ ParseOptionsHead
    \/ CallSpecByQueue
    \/ CallSpecGeneric
    \/ FinishArchSpec
    \/ ArchSpecReturn
    \/ CallGxxSpec
    \/ ParseOptionsFiles
    \/ CallSetResources
    \/ CheckInputs

----------------------------------------------------------------------------
(* Catalogs and command lines *)

MaxNCpus == 2

CoresPerCpu == {4, 8}

CpuCaps == {None, Some(4), Some(6), Some(10)}

MemSoftCaps == {None, Some(100), Some(300)}

MemHardCaps == {None, Some(200)}

MemSizes == {None, Some(320)}

QA == <<"q", "a">>

ZZ == <<"z", "z">>

KeyBase == <<"B", "a", "s", "e">>

KeyCurie == <<"c", "u", "r", "i", "e">>

UserName == <<"j", "b">>

InputA == <<"a", ".", "gjf">>

JobId == <<"4", "2">>

TmpDefault == <<"/", "t", "/", "{username}">>

Family(ncpus, ncores, cpulim, memlim, size, nnodes, groups, tmpdir) ==
    [queue_name |-> QA, ncpus |-> ncpus, ncores |-> ncores, nthreads |-> 2,
     cpu_limits |-> cpulim, mem_limits |-> memlim, size_mem |-> size,
     nnodes |-> nnodes, user_groups |-> groups, path_tmpdir |-> tmpdir,
     cpu_arch |-> "skylake"]

Join2(a, b) == a \o <<":">> \o b

Join3(a, b, c) == a \o <<":">> \o b \o <<":">> \o c

Options(queue, node, group, walltime, tmpdir) ==
    [queue |-> queue, node |-> node, group |-> group, walltime |-> walltime,
     tmpdir |-> tmpdir, tmpspace |-> <<"1", "0", "G", "B">>]

NoWalltime == [walltime_needed |-> FALSE, walltime |-> [kind |-> "none"]]

G16C01 == <<"g", "1", "6", "c", "0", "1">>

RouteOpt == <<"#", " ", "opt">>

Title == <<"t", "i", "t", "l", "e">>

Blank == <<>>

\* an input file without Link0 lines
PlainInput == <<RouteOpt, Blank, Title, Blank>>

SecG16 == <<"g", "1", "6", ".", "c", "0", "1">>

\* a version installed as an environment module
ModuleSection ==
    [name |-> SecG16,
     data |-> [ModuleName |-> <<"gaussian/16">>, Name |-> <<"G16 C.01">>]]

\* the rest of the command line and of the installation when only the
\* queue resolution is varied
Defaults ==
    [conf |-> <<ModuleSection>>,
     opts |-> [gxxver |-> G16C01, gxxwrk |-> None, mach |-> FALSE,
               infile |-> <<InputA>>, multi |-> None, gxxlog |-> None,
               gxxchk |-> None, gxxrwf |-> None, gxxl0K |-> <<>>,
               gxxl0I |-> None,
               expert |-> None, job |-> None, mail |-> FALSE,
               mailto |-> None],
     env  |-> [gxx_default |-> G16C01, debug |-> None, dirs |-> {},
               files |-> {InputA}, mailaddr |-> None,
               gjf |-> (InputA :> PlainInput)]]

\* state of the process at a position of main(), with the catalogs read
StartAt(at, ninfo, qinfo, nodestype, cfg, o, x) ==
    /\ nodes_info = ninfo
    /\ queues_info = qinfo
    /\ node_family = None
    /\ server = [nodestype |-> nodestype]
    /\ config = cfg
    /\ opts = o @@ x.opts
    /\ pc = "spec"
    /\ maxcpu = EmptyDict
    /\ maxmem = EmptyDict
    /\ job_extra = EmptyDict
    /\ tmp_path = None
    /\ error = NoError
    /\ env = [user |-> UserName, jobid |-> JobId] @@ x.env
    /\ step = at
    /\ exit_code = None
    /\ report = NoReport
    /\ gconf = [i \in 1..Len(x.conf) |-> ReadSection(x.conf[i])]
    /\ gxx_versions = None
    /\ workings_info = None
    /\ gxx_spec = None
    /\ options = EmptyDict
    /\ main_nprocs = None
    /\ main_mem = None
    /\ full_P = 0
    /\ full_M = 0
    /\ ops_copy = <<>>
    /\ gjf_new = <<>>
    /\ outcomes = <<>>
    /\ libcall = None

\* state of the process when gaussian.init has read its configuration
StartWith(key, fam, qinfo, nodestype, cfg, o, x) ==
    /\ StartAt("init", (key :> fam), qinfo, nodestype, cfg, o, x)
    /\ stage = 3

Start(key, fam, qinfo, nodestype, cfg, o) ==
    StartWith(key, fam, qinfo, nodestype, cfg, o, Defaults)

CpuTokens ==
    { <<>>, <<" ">>, <<"H">>, <<"S">>, <<"0">>, <<"4">>, <<"8">>, <<"-", "1">>,
      <<"-", "2">>, <<"1", "0", "0">>, <<"h">>, <<"a", "b", "c">>,
      <<"0", "0">>, <<"-", "0">>, <<"+", "0">>, <<"+", "4">> }

CpuFamilies ==
    { Family(c, n, [soft |-> cs, hard |-> ch], [soft |-> ms, hard |-> mh],
             sz, 4, None, Some(TmpDefault)) :
        c \in 1..MaxNCpus, n \in CoresPerCpu, cs \in CpuCaps, ch \in CpuCaps,
        ms \in MemSoftCaps, mh \in MemHardCaps, sz \in MemSizes }

CpuQueries ==
    {QA, ZZ, Join2(ZZ, <<"4">>), Join3(QA, <<"4">>, <<>>),
     Join3(ZZ, <<"4">>, <<"1">>),
     Join3(QA, <<"4">>, <<"1">>) \o <<":">>,
     Join3(ZZ, <<"4">>, <<"1">>) \o <<":", "2">>,
     Join3(QA, <<>>, <<>>) \o <<":", ":">>}
    \cup {Join2(QA, t) : t \in CpuTokens}

\* Calls that vary the processor request and the cpu/memory limits
Init ==
    \/ \E fam \in CpuFamilies, q \in CpuQueries :
           Start(KeyCurie, fam, (QA :> KeyCurie), "queues", NoWalltime,
                 Options(q, None, None, None, None))
    \/ \E fam \in CpuFamilies, key \in {KeyBase, KeyCurie} :
           Start(key, fam, (QA :> key), "central", NoWalltime,
                 Options(<<>>, None, None, None, None))

Spec == Init /\ [][Next]_vars

----------------------------------------------------------------------------
(* Calls that vary the node id, the node selector and the groups *)

MaxNodes == 11

GroupLists == {None, Some(<<"g1">>), Some(<<"g1", "g2">>)}

GroupSelectors == {None, Some("g1"), Some("g2"), Some("g3")}

NoLimits == [soft |-> None, hard |-> None]

NodeFamilies ==
    { Family(1, 8, NoLimits, NoLimits, Some(320), nn, ug, Some(TmpDefault)) :
        nn \in 1..MaxNodes, ug \in GroupLists }

\* node ids written in decimal, and texts that are not integers
NodeIds == (-1)..(MaxNodes + 1)

NodeTokens == {PyStr(n) : n \in NodeIds} \cup {<<>>, <<"x">>, <<"1", ".", "0">>}

NodeSelectors == {None, Some(2), Some(3), Some(MaxNodes + 1)}

InitNode ==
    \/ \E fam \in NodeFamilies, t \in NodeTokens, n \in NodeSelectors,
          g \in GroupSelectors :
           Start(KeyCurie, fam, (QA :> KeyCurie), "queues", NoWalltime,
                 Options(Join3(QA, <<>>, t), n, g, None, None))
    \/ \E fam \in NodeFamilies, n \in NodeSelectors, g \in GroupSelectors :
           Start(KeyCurie, fam, (QA :> KeyCurie), "queues", NoWalltime,
                 Options(QA, n, g, None, None))
    \/ \E fam \in NodeFamilies, g \in GroupSelectors :
           Start(KeyBase, fam, (QA :> KeyBase), "central", NoWalltime,
                 Options(<<>>, None, g, None, None))

SpecNode == InitNode /\ [][Next]_vars

----------------------------------------------------------------------------
(* Calls that vary the walltime policy, the queue suffix and the scratch *)

MaxPolicyLen == 2

SuffixLong == <<"_", "l">>

SuffixShort == <<"_", "s">>

SuffixBoth == <<"_", "l", "s">>

QueueSuffixes == {<<>>, SuffixLong, SuffixShort, SuffixBoth}

\* entries of the walltime map: key (a substring of the queue suffix), value
WalltimeEntries ==
    { << <<>>, <<"2", ":", "0", "0", ":", "0", "0">> >>,
      << <<"l">>, <<"2", "4", ":", "0", "0", ":", "0", "0">> >>,
      << <<"s">>, <<"1", ":", "0", "0", ":", "0", "0">> >> }

\* the maps of at most MaxPolicyLen entries, in every iteration order
WalltimeMaps ==
    UNION { { m \in [1..n -> WalltimeEntries] :
                  \A i, j \in 1..n : i # j => m[i][1] # m[j][1] } :
            n \in 0..MaxPolicyLen }

WalltimeConfigs ==
    {NoWalltime, [walltime_needed |-> TRUE, walltime |-> [kind |-> "str"]]}
    \cup {[walltime_needed |-> TRUE, walltime |-> [kind |-> "dict", items |-> m]] :
            m \in WalltimeMaps}

WalltimeOptions ==
    {None, Some(<<"3", ":", "0", "0", ":", "0", "0">>),
     Some(<<"3", ":", "0", ":", "0">>)}

ScratchTemplates == {None, Some(TmpDefault), Some(<<"$", "T">>)}

ScratchOptions == {None, Some(<<"/", "s", "/", "{username}">>), Some(<<"$", "S">>)}

WallFamilies ==
    { Family(1, 8, NoLimits, NoLimits, Some(320), 4, None, tmp) :
        tmp \in ScratchTemplates }

WallQueues(key) == [q \in {QA \o x : x \in QueueSuffixes} |-> key]

InitWall ==
    \/ \E fam \in WallFamilies, x \in QueueSuffixes, cfg \in WalltimeConfigs,
          w \in WalltimeOptions, t \in ScratchOptions :
           Start(KeyCurie, fam, WallQueues(KeyCurie), "queues", cfg,
                 Options(QA \o x, None, None, w, t))
    \/ \E fam \in WallFamilies, cfg \in WalltimeConfigs, w \in WalltimeOptions,
          t \in ScratchOptions :
           Start(KeyBase, fam, WallQueues(KeyBase), "central", cfg,
                 Options(<<>>, None, None, w, t))

SpecWall == InitWall /\ [][Next]_vars

----------------------------------------------------------------------------
(* Calls that vary the catalog of the versions and the version token *)

Label == <<"G16 C.01">>

Haswell == <<"intel64-haswell">>

Istanbul == <<"amd64-istanbul">>

\* the installation options of a version section
ModuleInstall == [ModuleName |-> <<"gaussian/16">>]

FullPathInstall == [FullPath |-> <<"/", "o">>]

PlainPathInstall ==
    [FullPath |-> <<"/", "o">>, GxxPathFmt |-> <<"{fullpath}">>]

RootPathInstall == [RootPath |-> <<"/", "r">>, BaseDir |-> <<"b">>]

NoBaseDirInstall == [RootPath |-> <<"/", "r">>]

ModuleAndFullPath == ModuleInstall @@ FullPathInstall

ModuleAndRootPath == ModuleInstall @@ RootPathInstall

InstallSpecs ==
    {ModuleInstall, FullPathInstall, PlainPathInstall, RootPathInstall,
     NoBaseDirInstall, ModuleAndFullPath, ModuleAndRootPath}

MachsOptions == {EmptyDict, [Machs |-> Haswell], [Machs |-> Istanbul]}

SharedOptions ==
    {EmptyDict, [Shared |-> <<"A", "n", "y">>], [Shared |-> UserName],
     [Shared |-> <<"x", "y">>], [Shared |-> <<"x", "y", ",", " ", "j", "b">>]}

VersionSection(install, machs, shared) ==
    [name |-> SecG16, data |-> install @@ machs @@ shared @@ [Name |-> Label]]

VersionSections ==
    {VersionSection(i, m, s) :
        i \in InstallSpecs, m \in MachsOptions, s \in SharedOptions}

SecWork == <<"w", ".", "g", "1", "6", ".", "c", "0", "1">>

WG16C01 == <<"w">> \o G16C01

WorkingSection(machs, shared) ==
    [name |-> SecWork,
     data |-> [WorkPath |-> <<"/", "w">>, BaseDir |-> <<"x">>, Name |-> Label]
              @@ machs @@ shared]

WorkingSections ==
    {WorkingSection(m, s) :
        m \in {EmptyDict, [Machs |-> Haswell]},
        s \in {EmptyDict, [Shared |-> UserName], [Shared |-> <<"x", "y">>]}}

\* the versions a working tree is tried on
WorkedSections ==
    {VersionSection(i, m, s) :
        i \in {ModuleInstall, FullPathInstall, PlainPathInstall},
        m \in MachsOptions,
        s \in {EmptyDict, [Shared |-> UserName], [Shared |-> <<"x", "y">>]}}

G16 == <<"g", "1", "6">>

GxxDir == <<"/", "g">>

GxxFile == <<"/", "g", "/", "x">>

Nowhere == <<"n", "o">>

CpuArchs == {"skylake", "bulldozer", "power9"}

DebugValues == {None, Some(FALSE), Some(TRUE)}

GxxFamily(arch) ==
    [Family(1, 8, NoLimits, NoLimits, Some(320), 4, None, Some(TmpDefault))
        EXCEPT !.cpu_arch = arch]

\* the command line -q qa -g <token> [-w <dir>] on the installation `conf`
GxxCall(conf, token, wrk, arch, debug) ==
    [conf |-> conf,
     opts |-> [Defaults.opts EXCEPT !.gxxver = token, !.gxxwrk = wrk],
     env  |-> [Defaults.env EXCEPT !.debug = debug, !.dirs = {GxxDir},
                                   !.files = {InputA, GxxFile}]]

WorkA == <<"/", "w", "a">>

WorkB == <<"/", "w", "b">>

WorkC == <<"/", "w", "c">>

\* the directories that -w gives, all of them on the disk
WorkLists ==
    {<<WorkA>>, <<WorkA, WorkB>>, <<WorkB, WorkA>>, <<WorkA, WorkB, WorkC>>,
     <<WorkC, WorkA, WorkB>>, <<WorkA, WorkA>>}

\* a version without working tree, and a working tree of a version
WorkInstalls ==
    { [conf |-> <<ModuleSection>>, token |-> G16C01],
      [conf |-> <<VersionSection(ModuleInstall, EmptyDict, EmptyDict),
                  WorkingSection(EmptyDict, EmptyDict)>>,
       token |-> WG16C01] }

\* the command line on a disk that holds the directories
WithDirs(dirs, call) == [call EXCEPT !.env.dirs = @ \cup dirs]

InitGxx ==
    \/ \E sec \in VersionSections, token \in {G16C01, G16, AliasKey},
          arch \in CpuArchs :
           StartWith(KeyCurie, GxxFamily(arch), (QA :> KeyCurie), "queues",
                     NoWalltime, Options(QA, None, None, None, None),
                     GxxCall(<<sec>>, token, None, arch, None))
    \/ \E sec \in WorkedSections, wsec \in WorkingSections, arch \in CpuArchs :
           StartWith(KeyCurie, GxxFamily(arch), (QA :> KeyCurie), "queues",
                     NoWalltime, Options(QA, None, None, None, None),
                     GxxCall(<<sec, wsec>>, WG16C01, None, arch, None))
    \/ \E token \in {GxxDir, GxxFile, Nowhere}, debug \in DebugValues,
          wrk \in {None, Some(<<GxxDir>>), Some(<<Nowhere>>)} :
           StartWith(KeyCurie, GxxFamily("skylake"), (QA :> KeyCurie),
                     "queues", NoWalltime,
                     Options(QA, None, None, None, None),
                     GxxCall(<<ModuleSection>>, token, wrk, "skylake", debug))
    \/ \E inst \in WorkInstalls, wrk \in WorkLists :
           StartWith(KeyCurie, GxxFamily("skylake"), (QA :> KeyCurie),
                     "queues", NoWalltime,
                     Options(QA, None, None, None, None),
                     WithDirs({WorkA, WorkB, WorkC},
                              GxxCall(inst.conf, inst.token, Some(wrk),
                                      "skylake", None)))
    \/ \E sec \in {ModuleSection, VersionSection(PlainPathInstall, EmptyDict,
                                                 EmptyDict)} :
           StartWith(KeyBase, GxxFamily("skylake"), (QA :> KeyBase),
                     "central", NoWalltime,
                     Options(<<>>, None, None, None, None),
                     GxxCall(<<sec>>, G16C01, None, "skylake", None))

SpecGxx == InitGxx /\ [][Next]_vars

----------------------------------------------------------------------------
(* Calls that vary the input files and the options on their Link0 lines *)

InputB == <<"b", ".", "gjf">>

\* a file that does not exist
InputC == <<"c", ".", "gjf">>

NProcLine(n) ==
    <<"%", "n", "p", "r", "o", "c", "s", "h", "a", "r", "e", "d", "=">> \o n

MemLine(size) == <<"%", "m", "e", "m", "=">> \o size

ChkLine(name) == <<"%", "c", "h", "k", "=">> \o name

OldChkLine(name) == <<"%", "o", "l", "d", "c", "h", "k", "=">> \o name

RwfLine(name) == <<"%", "r", "w", "f", "=">> \o name

XChk == <<"x", ".", "chk">>

OChk == <<"o", ".", "chk">>

XRwf == <<"x", ".", "rwf">>

\* an input that asks for 4 processors and 8GB
Job48 ==
    <<NProcLine(<<"4">>), MemLine(<<"8", "G", "B">>), RouteOpt, Blank, Title,
      Blank>>

\* an input that asks for 6 processors and 4GB
Job64 ==
    <<NProcLine(<<"6">>), MemLine(<<"4", "G", "B">>), RouteOpt, Blank, Title,
      Blank>>

\* an input of two blocks with every Link0 directive
FullInput ==
    <<ChkLine(XChk), RwfLine(XRwf), MemLine(<<"8", "G", "B">>),
      NProcLine(<<"4">>), OldChkLine(OChk), NoSaveLine, RouteOpt, Blank,
      Title, Blank, <<"-", "-", "L", "i", "n", "k", "1", "-", "-">>,
      ChkLine(XChk), RouteOpt, Blank>>

\* a Link0 line without "=": %kjob l301
KJobLine == <<"%", "k", "j", "o", "b", " ", "l", "3", "0", "1">>

\* a Link0 line check_gjf has no branch for: %subst=x
SubstLine == <<"%", "s", "u", "b", "s", "t", "=", "x">>

\* Job48 with a Link0 line without "="
KJobInput == <<KJobLine>> \o Job48

\* Job48 with a Link0 line that is no directive of check_gjf
SubstInput == <<SubstLine>> \o Job48

\* an input whose %nproc is not an integer
AllProcsInput ==
    <<NProcLine(<<"a", "l", "l">>), MemLine(<<"8", "G", "B">>), RouteOpt,
      Blank, Title, Blank>>

\* an input of two blocks without Link0 directive
TwoBlocks ==
    <<NoSaveLine, RouteOpt, Blank, Title, Blank,
      <<"-", "-", "L", "i", "n", "k", "1", "-", "-">>, SubstLine, RouteOpt,
      Blank>>

RouteGeomView == <<"#", " ", "opt", " ", "geomview">>

RouteFChk == <<"#", " ", "opt", " ", "FChk">>

\* inputs whose route asks for a file to copy back
GeomViewInput ==
    <<NProcLine(<<"4">>), MemLine(<<"8", "G", "B">>), RouteGeomView, Blank,
      Title, Blank>>

FChkInput ==
    <<NProcLine(<<"4">>), MemLine(<<"8", "G", "B">>), RouteFChk, Blank,
      Title, Blank>>

\* an input that reads and writes the same checkpoint file
SameChkInput == <<ChkLine(OChk), OldChkLine(OChk)>> \o Job48

KeepLists ==
    {<<>>, <<"m", "p">>, <<"a">>, <<"m">>, <<"p">>, <<"c">>, <<"r">>}

LogOptions == {None, Some(<<"o", ".", "log">>)}

ChkOptions == {None, Some(<<"k", ".", "chk">>)}

RwfOptions == {None, Some(<<"w", ".", "rwf">>), Some(<<"A", "u", "t", "o">>)}

MailOptions ==
    {[mail |-> FALSE, mailto |-> None, mailaddr |-> None],
     [mail |-> TRUE, mailto |-> None, mailaddr |-> None],
     [mail |-> TRUE, mailto |-> None,
      mailaddr |-> Some(<<"{user}", "@", "x">>)],
     [mail |-> TRUE, mailto |-> Some(<<"{user}", "@", "x">>),
      mailaddr |-> None]}

\* families of 8 and 16 cores, with 9 and 288 GB for the jobs
MainFamilies ==
    { Family(c, 8, NoLimits, NoLimits, Some(sz), 4, None, Some(TmpDefault)) :
        c \in 1..MaxNCpus, sz \in {10, 320} }

\* the command line -q qa [--multi m] [-k ...] [-o ...] [-c ...] [-r ...]
\* [-X] [-m] files, and the contents of a.gjf and b.gjf
MainCall(infile, multi, keep, log, chk, rwf, expert, mail, gjfA, gjfB) ==
    [conf |-> <<ModuleSection>>,
     opts |-> [Defaults.opts EXCEPT !.infile = infile, !.multi = multi,
                                    !.gxxl0K = keep, !.gxxlog = log,
                                    !.gxxchk = chk, !.gxxrwf = rwf,
                                    !.expert = expert, !.mail = mail.mail,
                                    !.mailto = mail.mailto],
     env  |-> [Defaults.env EXCEPT !.files = {InputA, InputB, OChk},
                                   !.mailaddr = mail.mailaddr,
                                   !.gjf = (InputA :> gjfA) @@ (InputB :> gjfB)]]

NoMail == [mail |-> FALSE, mailto |-> None, mailaddr |-> None]

StartMain(fam, call) ==
    StartWith(KeyCurie, fam, (QA :> KeyCurie), "queues", NoWalltime,
              Options(QA, None, None, None, None), call)

\* the lists that -i gives
IgnoreLists == {<<"c">>, <<"chk">>, <<"r">>, <<"rwf">>, <<"a">>, <<"all">>,
                <<"c", "r">>}

\* the command line with -i before the files
WithIgnore(ignore, call) == [call EXCEPT !.opts.gxxl0I = Some(ignore)]

InitMain ==
    \/ \E fam \in MainFamilies, infile \in {<<InputA>>, <<InputA, InputB>>},
          multi \in {None, Some("serial"), Some("parallel")},
          keep \in {<<>>, <<"m", "p">>, <<"a">>, <<"m">>, <<"p">>},
          expert \in {None, Some(1)}, gjfA \in {Job48, PlainInput} :
           StartMain(fam, MainCall(infile, multi, keep, None, None, None,
                                   expert, NoMail, gjfA, Job64))
    \/ \E infile \in {<<InputA>>, <<InputA, InputB>>, <<InputC>>,
                      <<InputA, InputC>>},
          log \in LogOptions, chk \in ChkOptions, rwf \in RwfOptions,
          mail \in MailOptions :
           StartMain(Family(2, 8, NoLimits, NoLimits, Some(320), 4, None,
                            Some(TmpDefault)),
                     MainCall(infile, None, <<>>, log, chk, rwf, None, mail,
                              Job48, Job64))
    \/ \E keep \in KeepLists, chk \in ChkOptions, rwf \in RwfOptions,
          gjfA \in {FullInput, Job48, PlainInput, KJobInput, SubstInput,
                    AllProcsInput, TwoBlocks, GeomViewInput, FChkInput,
                    SameChkInput} :
           StartMain(Family(2, 8, NoLimits, NoLimits, Some(320), 4, None,
                            Some(TmpDefault)),
                     MainCall(<<InputA>>, None, keep, None, chk, rwf, None,
                              NoMail, gjfA, Job64))
    \/ \E np \in {<<"1">>, <<"3">>, <<"5">>}, sz \in {2, 10, 320},
          infile \in {<<InputA, InputB>>, <<InputA, InputB, InputA>>},
          multi \in {Some("serial"), Some("parallel")},
          keep \in {<<>>, <<"m">>, <<"p">>} :
           StartWith(KeyCurie,
                     Family(2, 8, NoLimits, NoLimits, Some(sz), 4, None,
                            Some(TmpDefault)),
                     (QA :> KeyCurie), "queues", NoWalltime,
                     Options(Join2(QA, np), None, None, None, None),
                     MainCall(infile, multi, keep, None, None, None, None,
                              NoMail, PlainInput, Job64))
    \/ \E ignore \in IgnoreLists, keep \in {<<>>, <<"c">>},
          gjfA \in {FullInput, PlainInput} :
           StartMain(Family(2, 8, NoLimits, NoLimits, Some(320), 4, None,
                            Some(TmpDefault)),
                     WithIgnore(ignore,
                                MainCall(<<InputA>>, None, keep, None, None,
                                         None, None, NoMail, gjfA, Job64)))
    \/ StartWith(KeyBase, Family(2, 8, NoLimits, NoLimits, Some(320), 4, None,
                                 Some(TmpDefault)),
                 (QA :> KeyBase), "central", NoWalltime,
                 Options(<<>>, None, None, None, None),
                 MainCall(<<InputA>>, None, <<>>, None, None, None, None,
                          NoMail, Job48, Job64))

SpecMain == InitMain /\ [][Next]_vars

----------------------------------------------------------------------------
(* Calls of get_arch_spec one after the other on one catalog *)

QAWord == <<"q", "a", ":", "a", "b", "c">>

QUnknown == <<"x", "x">>

TmpOther == <<"$", "T", "M", "P">>

GroupOps == <<"o", "p", "s">>

\* the options of the calls
CallOptions ==
    { Options(q, None, None, None, None) : q \in {QA, ZZ, QAWord, QUnknown} }
    \cup { Options(ZZ, None, Some(GroupOps), None, None) }

\* two families that differ in every quantity, one for each queue
CallCatalogs ==
    { (KeyCurie :> Family(2, n, [soft |-> Some(4), hard |-> None],
                          [soft |-> ms, hard |-> Some(200)], Some(320), 4,
                          None, Some(TmpDefault)))
      @@ (KeyBase :> [Family(1, 4, NoLimits, NoLimits, Some(500), 2,
                             Some(<<GroupOps>>), Some(TmpOther))
                        EXCEPT !.queue_name = ZZ]) :
        n \in CoresPerCpu, ms \in {Some(100), Some(300)} }

InitCalls ==
    \E ninfo \in CallCatalogs, kind \in {"queues", "central"},
       o \in CallOptions :
        /\ StartAt("arch", ninfo, (QA :> KeyCurie) @@ (ZZ :> KeyBase), kind,
                   NoWalltime, o, Defaults)
        /\ stage = 4

\* what a call of get_arch_spec gave to its caller
Outcome ==
    [maxcpu |-> maxcpu, maxmem |-> maxmem, job_extra |-> job_extra,
     tmp_path |-> tmp_path, error |-> error]

\* a caller of the library calls get_arch_spec once more, with other
\* options, in the same process
CallAgain ==
    /\ step = "arch"
    /\ pc \in {"done", "failed"}
    /\ outcomes' = (IF opts \in DOMAIN outcomes THEN outcomes
                    ELSE outcomes @@ (opts :> Outcome))
    /\ \E o \in CallOptions : opts' = o @@ Defaults.opts
    /\ pc' = "spec"
    /\ maxcpu' = EmptyDict
    /\ maxmem' = EmptyDict
    /\ job_extra' = EmptyDict
    /\ tmp_path' = None
    /\ error' = NoError
    /\ UNCHANGED <<nodes_info, queues_info, node_family, server, config, env>>
    /\ UNCHANGED mainVars
    /\ UNCHANGED <<stage, libcall>>

\* a process that calls get_arch_spec again and again
NextCalls ==
    \/ CallSpecByQueue
    \/ CallSpecGeneric
    \/ FinishArchSpec
    \/ CallAgain

SpecCalls == InitCalls /\ [][NextCalls]_vars

----------------------------------------------------------------------------
(* The quantities that get_path knows *)

QHpcFile == <<"h", "p", "c", "f", "i", "l", "e">>

QHpcNodes == <<"h", "p", "c", "n", "o", "d", "e", "s">>

QGxxFile == <<"g", "x", "x", "f", "i", "l", "e">>

QHpcMod == <<"h", "p", "c", "m", "o", "d">>

QGxxRoot == <<"g", "x", "x", "r", "o", "o", "t">>

QCompDir == <<"c", "o", "m", "p", "d", "i", "r">>

----------------------------------------------------------------------------
(* gxxtools.sub.cmds: the head of the job script *)

\* a text is the sequence of its lines, each one ended by a newline
\* print(text, file=out): the text and one more newline
PrintTo(stream, text) == stream \o text \o <<Blank>>

\* 'key' in extraopts, on a dictionary or on None
NotIterable == Raise("TypeError", "argument of type 'NoneType' is not iterable")

UnknownShell == Raise("NameError", "Unknown type of shell")

\* the text that a call gives back and the stream after the call
Gives(err, ret, stream) == [err |-> err, ret |-> ret, stream |-> stream]

\* the lines that store the variables of the job, None for an unknown shell
QsubStore(shell) ==
    IF Lower(shell) \in {<<"b", "a", "s", "h">>, <<"s", "h">>, <<"z", "s", "h">>}
    THEN Some(<< <<"# Store special variable for summary">>,
                 <<"JOB_QUEUE=$PBS_O_QUEUE">>, <<"JOB_HOST=$PBS_O_HOST">>,
                 <<"JOB_ID=$PBS_JOBID">>, <<"JOB_NAME=$PBS_JOBNAME">> >>)
    ELSE IF Lower(shell) \in {<<"c", "s", "h">>, <<"t", "c", "s", "h">>}
    THEN Some(<< <<"# Store special variable for summary">>,
                 <<"set JOB_QUEUE = \"$PBS_O_QUEUE\"">>,
                 <<"set JOB_HOST = \"$PBS_O_HOST\"">>,
                 <<"set JOB_ID = \"$PBS_JOBID\"">>,
                 <<"set JOB_NAME = \"$PBS_JOBNAME\"">> >>)
    ELSE None

\* the text of build_qsub_head for a dictionary of extra options
QsubText(a, extra) ==
    LET extra_res ==
            (IF "host" \in DOMAIN extra
             THEN <<":host=">> \o extra.host ELSE <<>>)
            \o (IF "qbase" \in DOMAIN extra
                THEN <<":Qlist=">> \o extra.qbase ELSE <<>>)
            \o (IF "diskmem" \in DOMAIN extra
                THEN <<":scratch_local=">> \o extra.diskmem ELSE <<>>)
        head == << <<"#!/bin/">> \o a.shell, Blank,
                   <<"#PBS -N ">> \o a.jobtitle,
                   <<"#PBS -l select=1:ncpus=">> \o PyStr(a.jobncpus)
                       \o <<":mem=">> \o a.jobmem \o extra_res >>
        wtime == IF Strip(a.jobwtime) # <<>>
                 THEN << <<"#PBS -l walltime=">> \o a.jobwtime >> ELSE <<>>
        email == IF Strip(a.jobemail) # <<>>
                 THEN << <<"#PBS -m abe -M ">> \o a.jobemail >> ELSE <<>>
        group == IF "group" \in DOMAIN extra
                 THEN << <<"#PBS -W group-list=">> \o extra.group >> ELSE <<>>
        \* the line of the queue has no newline: the next one ends it
        queue == IF "qname" \in DOMAIN extra
                 THEN << <<"#PBS -q ">> \o extra.qname >> ELSE <<Blank>>
    IN  head \o wtime \o email \o group \o queue

\* build_qsub_head
BuildQsubHead(out, a) ==
    IF IsNone(a.extraopts) THEN Gives(NotIterable, None, out)
    ELSE IF IsNone(QsubStore(a.shell)) THEN Gives(UnknownShell, None, out)
    ELSE LET subcmd == QsubText(a, Val(a.extraopts)) \o Val(QsubStore(a.shell))
         IN  IF IsNone(out) THEN Gives(NoError, Some(subcmd), out)
             ELSE Gives(NoError, None, Some(PrintTo(Val(out), subcmd)))

\* the text of build_sbatch_head for a dictionary of extra options
SbatchText(a, extra) ==
    LET head == << <<"#!/bin/bash">>, Blank,
                   <<"#SBATCH --job-name ">> \o a.jobtitle,
                   <<"#SBATCH --nodes=1">>,
                   <<"#SBATCH --ntasks-per-node=">> \o PyStr(a.jobncpus),
                   <<"#SBATCH --mem=">> \o a.jobmem >>
        queue == IF "qname" \in DOMAIN extra
                 THEN << <<"#SBATCH --partition=">> \o extra.qname >> ELSE <<>>
        wtime == IF Strip(a.jobwtime) # <<>>
                 THEN << <<"#SBATCH --time=">> \o a.jobwtime >> ELSE <<>>
        host  == IF "host" \in DOMAIN extra
                 THEN << <<"#SBATCH --nodelist=">> \o extra.host >> ELSE <<>>
        email == IF Strip(a.jobemail) # <<>>
                 THEN << <<"#SBATCH --mail-type=all">>,
                         <<"#SBATCH --mail-user=">> \o a.jobemail >>
                 ELSE <<>>
    IN  head \o queue \o wtime \o host \o << <<"#SBATCH --exclusive">> >>
        \o email
        \o << Blank, <<"# Store special variable for summary">>,
               <<"JOB_QUEUE=$SLURM_JOB_PARTITION">>,
               <<"JOB_HOST=$SLURM_SUBMIT_HOST">>, <<"JOB_ID=$SLURM_JOBID">>,
               <<"JOB_NAME=$SLURM_JOB_NAME">> >>

\* build_sbatch_head: `return out` when out is None
BuildSbatchHead(out, a) ==
    IF IsNone(a.extraopts) THEN Gives(NotIterable, None, out)
    ELSE LET subcmd == SbatchText(a, Val(a.extraopts))
         IN  IF IsNone(out) THEN Gives(NoError, out, out)
             ELSE Gives(NoError, None, Some(PrintTo(Val(out), subcmd)))

----------------------------------------------------------------------------
(* gxxtools.parse_ini: get_path *)

MissingSection(name) == Raise("ValueError", <<"Missing section", name>>)

MissingOption(name) == Raise("ValueError", <<"Missing option", name>>)

NoConfigFile == Raise("FileNotFoundError", "Configuration file is missing.")

Unsupported == Raise("KeyError", "Unsupported quantity")

\* config.get(section, option, fallback=None), on a section that may miss
ConfigGet(section, option) ==
    IF IsNone(section) THEN None
    ELSE IF option \in DOMAIN Val(section) THEN Some(Val(section)[option])
    ELSE None

\* os.path.join(root, fname)
PathJoin(root, fname) ==
    IF fname # <<>> /\ fname[1] = "/" THEN fname
    ELSE IF root = <<>> \/ root[Len(root)] = "/" THEN root \o fname
    ELSE root \o <<"/">> \o fname

\* the keys that get_path hands to build_path, None for an unknown quantity
PathInfo(what, full_path) ==
    LET w == Lower(what)
    IN  IF w \in {QHpcFile, QHpcNodes}
        THEN Some([path |-> IF full_path THEN Some("iniroot") ELSE None,
                   file |-> Some("hpcfile")])
        ELSE IF w \in {QGxxFile}
        THEN Some([path |-> IF full_path THEN Some("iniroot") ELSE None,
                   file |-> Some("gxxfile")])
        ELSE IF w = QHpcMod
        THEN Some([path |-> Some("hpcnodes"), file |-> None])
        ELSE IF w = QGxxRoot
        THEN Some([path |-> Some("gxxroot"), file |-> None])
        ELSE IF w = QCompDir
        THEN Some([path |-> Some("compiler_path"), file |-> None])
        ELSE None

\* build_path: Build path from config file and path information
BuildPath(info, cfg, full_path, miss_ok, disk) ==
    IF ~IsNone(info.file)
    THEN IF IsNone(cfg.CONFIG)
         THEN IF ~miss_ok THEN [err |-> NoError, val |-> None]
              ELSE [err |-> MissingSection("CONFIG"), val |-> None]
         ELSE
         LET fname == ConfigGet(cfg.CONFIG, Val(info.file))
         IN  IF IsNone(fname) /\ ~miss_ok
             THEN [err |-> MissingOption(Val(info.file)), val |-> None]
             ELSE IF ~full_path \/ (miss_ok /\ IsNone(fname))
             THEN [err |-> NoError, val |-> fname]
             ELSE IF InList("/", Val(fname)) /\ Val(fname) \in disk
             THEN [err |-> NoError, val |-> Some(AbsPath(Val(fname)))]
             ELSE LET root == ConfigGet(cfg.PATHS, Val(info.path))
                  IN  IF ~IsNone(root)
                      THEN [err |-> NoError,
                            val |-> Some(PathJoin(Val(root), Val(fname)))]
                      ELSE [err |-> NoError, val |-> fname]
    ELSE IF IsNone(cfg.PATHS)
         THEN IF miss_ok THEN [err |-> NoError, val |-> None]
              ELSE [err |-> MissingSection("PATHS"), val |-> None]
         ELSE
         LET root == ConfigGet(cfg.PATHS, Val(info.path))
         IN  IF IsNone(root) /\ ~miss_ok
             THEN [err |-> MissingOption(Val(info.path)), val |-> None]
             ELSE IF IsNone(root) THEN [err |-> NoError, val |-> None]
             ELSE [err |-> NoError, val |-> Some(AbsPath(Val(root)))]

\* get_path, on the configuration that get_config read (None: no file)
GetPath(what, cfg, full_path, miss_ok, disk) ==
    IF IsNone(cfg) THEN [err |-> NoConfigFile, val |-> None]
    ELSE IF IsNone(PathInfo(what, full_path))
    THEN [err |-> Unsupported, val |-> None]
    ELSE BuildPath(Val(PathInfo(what, full_path)), Val(cfg), full_path,
                   miss_ok, disk)

\* the variables that a call of a function of the library leaves alone
LibFrame ==
    /\ UNCHANGED archVars
    /\ UNCHANGED mainVars
    /\ UNCHANGED <<stage, outcomes>>

----------------------------------------------------------------------------
(* Calls of the functions of the library *)

HeadArgs ==
    [jobtitle : {<<"generic">>}, jobncpus : {1, 16},
     jobmem : {<<"16GB">>},
     jobwtime : {<<>>, <<" ">>, <<"1:00:00">>},
     jobemail : {<<>>, <<"a@b">>},
     extraopts : {None, Some(EmptyDict),
                  Some([qname |-> QA, qbase |-> QA]),
                  Some([qname |-> QA, qbase |-> QA, host |-> <<"n1">>,
                        group |-> GroupOps, diskmem |-> <<"10GB">>])},
     shell : {<<"b", "a", "s", "h">>, <<"T", "c", "s", "h">>,
              <<"f", "i", "s", "h">>}]

\* an open stream, empty or not
Streams == {<<>>, << <<"# job">> >>}

CallQsubHead ==
    /\ step = "lib"
    /\ \E a \in HeadArgs, out \in {None} \cup {Some(f) : f \in Streams} :
          libcall' = Some([fn |-> "build_qsub_head", out |-> out, args |-> a,
                           res |-> BuildQsubHead(out, a)])
    /\ LibFrame

\* build_sbatch_head has no parameter for the shell
CallSbatchHead ==
    /\ step = "lib"
    /\ \E a \in HeadArgs, out \in {None} \cup {Some(f) : f \in Streams} :
          /\ a.shell = <<"b", "a", "s", "h">>
          /\ libcall' = Some([fn |-> "build_sbatch_head", out |-> out,
                              args |-> a, res |-> BuildSbatchHead(out, a)])
    /\ LibFrame

\* the [CONFIG] section of the configuration file, None when it misses
ConfigSections ==
    {None, Some(EmptyDict), Some([hpcfile |-> <<"n", ".", "ini">>]),
     Some([hpcfile |-> <<"n", ".", "ini">>, gxxfile |-> GxxFile])}

\* the [PATHS] section of the configuration file, None when it misses
PathsSections ==
    {None, Some(EmptyDict), Some([iniroot |-> <<"/", "e">>]),
     Some([iniroot |-> <<"/", "e">>, hpcnodes |-> <<"m">>, gxxroot |-> GxxDir])}

\* what get_config gives: None without configuration file
ConfigFiles ==
    {None} \cup {Some([CONFIG |-> c, PATHS |-> r]) :
                    c \in ConfigSections, r \in PathsSections}

Quantities ==
    {QHpcFile, QHpcNodes, <<"G", "x", "x", "F", "i", "l", "e">>, QHpcMod,
     QGxxRoot, QCompDir, Nowhere}

CallGetPath ==
    /\ step = "lib"
    /\ \E what \in Quantities, cfg \in ConfigFiles, full_path \in BOOLEAN,
          miss_ok \in BOOLEAN :
          libcall' = Some([fn |-> "get_path", what |-> what, config |-> cfg,
                           full_path |-> full_path, miss_ok |-> miss_ok,
                           res |-> GetPath(what, cfg, full_path, miss_ok,
                                           {GxxFile, GxxDir})])
    /\ LibFrame

NextLib ==
    \/ CallQsubHead
    \/ CallSbatchHead
    \/ CallGetPath

LibFamily ==
    Family(2, 8, NoLimits, NoLimits, Some(320), 4, None, Some(TmpDefault))

InitLib ==
    /\ StartAt("lib", (KeyCurie :> LibFamily), (QA :> KeyCurie), "queues",
               NoWalltime, Options(QA, None, None, None, None), Defaults)
    /\ stage = 0

SpecLib == InitLib /\ [][NextLib]_vars

----------------------------------------------------------------------------
(* gxxtools: load_rc, arch.init and gaussian.init, called in any order *)

NoRcFile == SysExit(1, "Missing configuration file.  Creating template.")

NoRcSection == SysExit(10, "Missing configuration for the server")

NoFormat == Raise("AttributeError", "'NoneType' object has no attribute 'format'")

RcPathNotFound == SysExit(1, "ERROR: Configuration file not found")

BadServerInfo == Raise("ValueError", "Unsupported type of job submission.")

BadStages == Raise("NameError", "Stages in gxxtools have not been properly built.")

BadNodesFile == Raise("ValueError", "hpcnodes.ini")

HomeVersions == <<"/", "h", "/", "gxxversions.ini">>

\* load_rc on the files of the user: the error, the stage it leaves and the
\* type of the server it stores
LoadRcResult(st, e) ==
    IF ~e.rc.file THEN [err |-> NoRcFile, stage |-> st, jobtype |-> None]
    ELSE IF IsNone(e.debug)
    THEN [err |-> DebugUndefined, stage |-> st, jobtype |-> None]
    ELSE IF ~e.rc.section
    THEN [err |-> NoRcSection, stage |-> st, jobtype |-> None]
    ELSE IF e.rc.paths = "nokey"
    THEN [err |-> NoFormat, stage |-> st, jobtype |-> None]
    ELSE IF e.rc.paths = "nofile"
    THEN [err |-> RcPathNotFound, stage |-> st, jobtype |-> None]
    ELSE IF e.rc.jobtype \notin {"central", "queues"}
    THEN [err |-> BadServerInfo, stage |-> 1, jobtype |-> None]
    ELSE [err |-> NoError, stage |-> 2, jobtype |-> Some(e.rc.jobtype)]

\* the server after load_rc
ServerAfter(srv, r) ==
    IF IsNone(r.jobtype) THEN srv ELSE [srv EXCEPT !.nodestype = Val(r.jobtype)]

\* a caller of the library calls load_rc
LoadRc ==
    /\ step = "lib"
    /\ LET r == LoadRcResult(stage, env)
       IN  /\ stage' = r.stage
           /\ server' = ServerAfter(server, r)
           /\ libcall' = Some([fn |-> "load_rc", err |-> r.err])
    /\ UNCHANGED <<nodes_info, queues_info, node_family, config, opts, pc,
                   maxcpu, maxmem, job_extra, tmp_path, error, env>>
    /\ UNCHANGED mainVars
    /\ UNCHANGED outcomes

\* a caller of the library calls arch.init
ArchInit ==
    /\ step = "lib"
    /\ LET r == IF stage < 2 THEN LoadRcResult(stage, env)
                ELSE [err |-> NoError, stage |-> stage, jobtype |-> None]
       IN  /\ server' = ServerAfter(server, r)
           /\ IF r.err # NoError
              THEN /\ stage' = r.stage
                   /\ libcall' = Some([fn |-> "arch.init", err |-> r.err])
              ELSE IF ~env.hpc
              THEN /\ stage' = r.stage
                   /\ libcall' = Some([fn |-> "arch.init",
                                       err |-> BadNodesFile])
              ELSE /\ stage' = 3
                   /\ libcall' = Some([fn |-> "arch.init", err |-> NoError])
    /\ UNCHANGED <<nodes_info, queues_info, node_family, config, opts, pc,
                   maxcpu, maxmem, job_extra, tmp_path, error, env>>
    /\ UNCHANGED mainVars
    /\ UNCHANGED outcomes

\* a caller of the library calls gaussian.init
GaussianInit ==
    /\ step = "lib"
    /\ IF stage < 3
       THEN /\ libcall' = Some([fn |-> "gaussian.init", err |-> BadStages])
            /\ UNCHANGED <<stage, gxx_versions, workings_info>>
       ELSE IF IsNone(ExistsOrDebug(env, HomeVersions))
       THEN /\ libcall' = Some([fn |-> "gaussian.init",
                                err |-> DebugUndefined])
            /\ UNCHANGED <<stage, gxx_versions, workings_info>>
       ELSE LET r == GxxInitResult(gconf, env.gxx_default)
            IN  /\ gxx_versions' = r.versions
                /\ workings_info' = r.workings
                /\ stage' = (IF IsNone(r.code) THEN 4 ELSE stage)
                /\ libcall' = Some([fn |-> "gaussian.init",
                                    err |-> IF IsNone(r.code) THEN NoError
                                            ELSE SysExit(Val(r.code), "")])
    /\ UNCHANGED archVars
    /\ UNCHANGED <<step, exit_code, report, gconf, gxx_spec, options, jobVars>>
    /\ UNCHANGED outcomes

NextStage ==
    \/ LoadRc
    \/ ArchInit
    \/ GaussianInit

\* the files of the user: the rc file, its section for the server, its
\* paths, and the type of submission of gxxconfig.ini
RcFiles ==
    [file : BOOLEAN, section : BOOLEAN, paths : {"ok", "nokey", "nofile"},
     jobtype : {"queues", "central", "batch"}]

InitStage ==
    \E rc \in RcFiles, hpc \in BOOLEAN, debug \in DebugValues,
       default \in {G16C01, G16} :
        /\ StartAt("lib", (KeyCurie :> LibFamily), (QA :> KeyCurie), "queues",
                   NoWalltime, Options(QA, None, None, None, None),
                   [Defaults EXCEPT !.env = [rc |-> rc, hpc |-> hpc] @@
                                            [@ EXCEPT !.debug = debug,
                                                      !.gxx_default = default]])
        /\ stage = 0

SpecStage == InitStage /\ [][NextStage]_vars

----------------------------------------------------------------------------
(* Properties of the processor and memory resolution *)

ByQueue == server.nodestype = "queues"

\* the resolver returned an allocation to get_arch_spec
Returned == pc # "spec" /\ maxcpu # EmptyDict

\* the resolver was left by an exception or an exit
ResolverFailed == pc = "failed" /\ maxcpu = EmptyDict

\* the family of the only queue of the catalog
CatalogFamily == nodes_info[queues_info[QA]]

\* the command line is -q qa:<token>
AsksCpu(token) == ByQueue /\ opts.queue = Join2(QA, token)

\* a family of 8 physical and 16 logical cores per node
EightCores ==
    /\ CatalogFamily.ncpus * CatalogFamily.ncores = 8
    /\ CatalogFamily.ncpus * CatalogFamily.ncores * CatalogFamily.nthreads = 16

\* soft limit if set, else hard limit, else all the cores of a node
DefaultCpus ==
    IF CatalogFamily.cpu_limits.soft # None
    THEN Val(CatalogFamily.cpu_limits.soft)
    ELSE IF CatalogFamily.cpu_limits.hard # None
    THEN Val(CatalogFamily.cpu_limits.hard)
    ELSE CatalogFamily.ncpus * CatalogFamily.ncores

InvalidCpuTokens ==
    { <<"h">>, <<"a", "b", "c">>, <<"0", "0">>, <<"-", "0">>, <<"+", "0">> }

\* C2: a cpuSpec that is not "H", "S", "0", a positive or a negative integer
\* ends the resolution with InvalidCpuSpec and with no other failure.
C2_InvalidCpuSpec ==
    \A t \in InvalidCpuTokens :
        (AsksCpu(t) /\ pc # "spec") => (ResolverFailed /\ error = InvalidCpuSpec)

\* the number of cores asked by the cpuSpecs that name it directly
AskedCount ==
    IF AsksCpu(<<"4">>) \/ AsksCpu(<<"+", "4">>) THEN Some(4)
    ELSE IF AsksCpu(<<"8">>) THEN Some(8)
    ELSE IF AsksCpu(<<"1", "0", "0">>) THEN Some(100)
    ELSE IF AsksCpu(<<"0">>)
    THEN Some(CatalogFamily.ncpus * CatalogFamily.ncores)
    ELSE IF AsksCpu(<<>>) THEN Some(DefaultCpus)
    ELSE None

\* C3: a count above the capacity of the node fails with TooManyCores;
\* otherwise a count above a set hard limit fails with HardLimitExceeded;
\* otherwise the count is cpu.base of the returned allocation.
C3_CheckOrder ==
    (pc # "spec" /\ AskedCount # None) =>
        LET n     == Val(AskedCount)
            avail == CatalogFamily.ncpus * CatalogFamily.ncores
            hard  == CatalogFamily.cpu_limits.hard
        IN  IF n > avail THEN ResolverFailed /\ error = TooManyCores
            ELSE IF hard # None /\ n > Val(hard)
            THEN ResolverFailed /\ error = HardLimitExceeded
            ELSE /\ error \notin {TooManyCores, HardLimitExceeded}
                 /\ Returned => maxcpu.base = n

\* "8" on an 8-core node with a hard limit of 6
C3_Witness ==
    /\ AsksCpu(<<"8">>) /\ EightCores
    /\ CatalogFamily.cpu_limits.hard = Some(6)
    /\ ResolverFailed /\ error = HardLimitExceeded

\* C4: a returned allocation never exceeds a hard limit:
\* cpu.base <= cpu.hard and mem.base <= mem.hard.
C4_HardCaps ==
    Returned =>
        /\ maxcpu.hard # None => maxcpu.base <= Val(maxcpu.hard)
        /\ maxmem.hard # None => maxmem.base <= Val(maxmem.hard)

\* the memory limit the family gives for `kind`, the hard one defaulted to
\* the memory of the node
FamilyMem(kind) ==
    LET fam == Val(node_family)
    IN  IF kind = "soft" THEN fam.mem_limits.soft
        ELSE IF fam.mem_limits.hard # None THEN fam.mem_limits.hard
        ELSE fam.size_mem

\* m is the limit `lim` of the family times 0.9 (None for no limit)
NineTenths(m, lim) ==
    IF lim = None THEN m = None
    ELSE m # None /\ MemLimitDen * Val(m) = MemLimitNum * Val(lim)

\* C5: mem.soft is the soft limit x 0.9 (absent without one), mem.hard is the
\* hard limit, or the node memory without one, x 0.9, mem.base is mem.soft
\* if present and mem.hard otherwise, and NoMemoryLimit is raised exactly
\* when the family gives neither.
C5_Memory ==
    /\ Returned =>
           /\ NineTenths(maxmem.soft, FamilyMem("soft"))
           /\ NineTenths(maxmem.hard, FamilyMem("hard"))
           /\ maxmem.base = (IF maxmem.soft # None THEN Val(maxmem.soft)
                             ELSE Val(maxmem.hard))
           /\ FamilyMem("soft") # None \/ FamilyMem("hard") # None
    /\ (ResolverFailed /\ error = NoMemoryLimit) =>
           /\ FamilyMem("soft") = None
           /\ FamilyMem("hard") = None

\* a soft limit of 100 and a hard limit of 200 give 90, 180 and a base of 90
C5_Witness ==
    /\ Returned
    /\ FamilyMem("soft") = Some(100) /\ FamilyMem("hard") = Some(200)
    /\ maxmem = [soft |-> Some(90), hard |-> Some(180), base |-> 90]

----------------------------------------------------------------------------
(* Properties of the node id, the host name and the group *)

\* the command line is -q qa::<token>
AsksNode(token) == ByQueue /\ opts.queue = Join3(QA, <<>>, token)

\* the decimal texts of the node ids of NodeIds: "-1", "0", "1", ...
NodeText(n) ==
    IF n < 0 THEN <<"-">> \o <<Digits[1 - n]>>
    ELSE IF n < 10 THEN <<Digits[n + 1]>>
    ELSE <<Digits[(n \div 10) + 1], Digits[(n % 10) + 1]>>

\* C6: a nodeId is accepted only if it is an integer n with
\* 0 <= n < nodeCount; any other value fails with InvalidNodeId.
C6_NodeIdRange ==
    pc # "spec" =>
        /\ \A n \in NodeIds :
               AsksNode(NodeText(n)) =>
                   IF 0 <= n /\ n < CatalogFamily.nnodes
                   THEN error # InvalidNodeId
                   ELSE ResolverFailed /\ error = InvalidNodeId
        /\ \A t \in {<<"x">>, <<"1", ".", "0">>} :
               AsksNode(t) => (ResolverFailed /\ error = InvalidNodeId)

\* the node id given in the queue specification, if it is one of NodeIds
SpecNodeId ==
    IF \E n \in NodeIds : AsksNode(NodeText(n))
    THEN Some(CHOOSE n \in NodeIds : AsksNode(NodeText(n)))
    ELSE None

\* the node id in effect: the selector if given, else the id of the spec
EffectiveId == IF opts.node # None THEN opts.node ELSE SpecNodeId

\* the part of extras.host after the raw queue name
HostSuffix ==
    SubSeq(job_extra.host, Len(CatalogFamily.queue_name) + 1, Len(job_extra.host))

\* extras.host is the raw queue name followed by a text that reads as id
HostNames(id) ==
    /\ "host" \in DOMAIN job_extra
    /\ SubSeq(job_extra.host, 1, Len(CatalogFamily.queue_name))
           = CatalogFamily.queue_name
    /\ PyInt(HostSuffix) = Some(id)

\* C7: with a node id in the spec and a node selector, the resolution exits
\* with ConflictingNodeSelection if and only if the two differ; when they
\* agree, or only one is given, that value is the node of extras.host.
C7_NodeConflict ==
    (ByQueue /\ pc # "spec" /\ error # InvalidNodeId) =>
        /\ (SpecNodeId # None /\ opts.node # None) =>
               (SpecNodeId # opts.node
                    <=> (ResolverFailed /\ error = ConflictingNodeSelection))
        /\ (SpecNodeId = None \/ opts.node = None) =>
               error # ConflictingNodeSelection
        /\ (Returned /\ EffectiveId # None) => HostNames(Val(EffectiveId))

\* "qa::2" with --node 3 exits with status 2
C7_Witness ==
    /\ AsksNode(<<"2">>) /\ opts.node = Some(3)
    /\ ResolverFailed
    /\ error.exc = "SystemExit" /\ error.code = Some(2)

\* number of decimal digits of a natural number below 1000
DigitCount(k) == IF k < 10 THEN 1 ELSE IF k < 100 THEN 2 ELSE 3

\* number of characters of the decimal text of an integer
TextLength(n) == IF n < 0 THEN 1 + DigitCount(-n) ELSE DigitCount(n)

\* C8, as stated: extras.host is the raw queue name followed by the id,
\* zero-padded to exactly the number of digits of nodeCount - 1; without a
\* node id there is no host entry.
C8_AsStated ==
    (ByQueue /\ Returned) =>
        IF EffectiveId = None THEN "host" \notin DOMAIN job_extra
        ELSE (0 <= Val(EffectiveId) /\ Val(EffectiveId) < CatalogFamily.nnodes)
             => /\ HostNames(Val(EffectiveId))
                /\ Len(HostSuffix) = DigitCount(CatalogFamily.nnodes - 1)

\* C8, amended: extras.host is the raw queue name followed by the id,
\* zero-padded to the number of digits of nodeCount (width 1 up to 9 nodes,
\* width 2 for 10 and 11 nodes), an id that needs more characters being
\* written in full; without a node id there is no host entry.
C8_HostName ==
    Returned =>
        IF ~ByQueue \/ EffectiveId = None THEN "host" \notin DOMAIN job_extra
        ELSE /\ HostNames(Val(EffectiveId))
             /\ Len(HostSuffix) =
                    Max(DigitCount(CatalogFamily.nnodes),
                        TextLength(Val(EffectiveId)))

\* node 3 of a family of 10 nodes is host "qa03"
C8_Witness ==
    /\ ByQueue /\ Returned
    /\ CatalogFamily.nnodes = 10
    /\ AsksNode(<<"3">>) /\ opts.node = None
    /\ job_extra.host = <<"q", "a", "0", "3">>

\* g is one of the groups of the family
Authorized(g) ==
    \E i \in 1..Len(Val(CatalogFamily.user_groups)) :
        Val(CatalogFamily.user_groups)[i] = g

\* C9: on a family restricted to userGroups, a selector outside the list
\* fails with GroupNotAuthorized, a selector of the list is extras.group,
\* and without a selector extras.group is the first group of the list.
C9_Group ==
    (pc # "spec" /\ CatalogFamily.user_groups # None
     /\ error \notin {InvalidNodeId, ConflictingNodeSelection}) =>
        /\ (opts.group # None /\ ~Authorized(Val(opts.group))) =>
               (ResolverFailed /\ error = GroupNotAuthorized)
        /\ (opts.group # None /\ Authorized(Val(opts.group))) =>
               (Returned /\ job_extra.group = opts.group)
        /\ opts.group = None =>
               /\ Returned
               /\ job_extra.group = Some(Val(CatalogFamily.user_groups)[1])

----------------------------------------------------------------------------
(* Properties of the walltime *)

\* the queue name of the command line without the base name of the family
AskedSuffix ==
    SubSeq(opts.queue, Len(CatalogFamily.queue_name) + 1, Len(opts.queue))

\* k occurs in s
OccursIn(k, s) == \E a, b \in 1..Len(s) : SubSeq(s, a, b) = k

\* entry i of the map is the first one with a non-empty key found in s
FirstHit(items, i, s) ==
    /\ items[i][1] # <<>> /\ OccursIn(items[i][1], s)
    /\ \A j \in 1..(i - 1) : ~(items[j][1] # <<>> /\ OccursIn(items[j][1], s))

----------------------------------------------------------------------------
(* Properties of the scratch path *)

\* get_arch_spec got past the walltime and the storage size
ReachedScratch ==
    /\ Returned /\ pc \in {"done", "failed"}
    /\ error \in {NoError, NoScratchSpecification}

\* the template t with its {username} field replaced by the user name
WithUser(t) ==
    IF \E i \in 1..Len(t) : t[i] = "{username}"
    THEN LET i == CHOOSE k \in 1..Len(t) : t[k] = "{username}"
         IN  SubSeq(t, 1, i - 1) \o env.user \o SubSeq(t, i + 1, Len(t))
    ELSE t

\* the path returned for the resolved template p
ScratchOf(p) ==
    IF p[1] = "$" THEN p
    ELSE p \o <<"/", "g", "a", "u", "r", "u", "n", "-">> \o env.jobid

\* C11: the scratch path is resolved from --tmpdir if given, else from the
\* template of the family, with {username} substituted in both; without
\* either the resolution ends with NoScratchSpecification; a resolved path
\* that starts with "$" is returned as is, any other one is returned with
\* "/gaurun-<jobId>" appended.
C11_ScratchPath ==
    ReachedScratch =>
        IF opts.tmpdir # None
        THEN /\ pc = "done"
             /\ tmp_path = Some(ScratchOf(WithUser(Val(opts.tmpdir))))
        ELSE IF Val(node_family).path_tmpdir # None
        THEN /\ pc = "done"
             /\ tmp_path =
                    Some(ScratchOf(WithUser(Val(Val(node_family).path_tmpdir))))
        ELSE /\ pc = "failed" /\ error = NoScratchSpecification
             /\ tmp_path = None

\* --tmpdir /s/{username} on a family whose template is /t/{username}
C11_Witness ==
    /\ pc = "done"
    /\ opts.tmpdir = Some(<<"/", "s", "/", "{username}">>)
    /\ Val(node_family).path_tmpdir = Some(TmpDefault)
    /\ tmp_path = Some(<<"/", "s", "/", "j", "b", "/",
                          "g", "a", "u", "r", "u", "n", "-", "4", "2">>)

----------------------------------------------------------------------------
(* Properties of the queue specification *)

\* number of colon-separated fields of a text
FieldCount(s) == 1 + Cardinality({i \in 1..Len(s) : s[i] = ":"})

\* the text before the first colon
FirstField(s) ==
    IF \E i \in 1..Len(s) : s[i] = ":"
    THEN SubSeq(s, 1, (CHOOSE i \in 1..Len(s) :
                          s[i] = ":" /\ \A j \in 1..(i - 1) : s[j] # ":") - 1)
    ELSE s

\* C12: the resolution of a query of more than 3 fields fails with
\* MalformedSpec and leaves the selected node family and the catalog as
\* they were; the resolution of a query of 1 to 3 fields whose queue name is
\* not a key of the catalog fails with UnknownQueue.
C12_MalformedSpec ==
    [][(step = "arch" /\ pc = "spec" /\ ByQueue) =>
          /\ FieldCount(opts.queue) > 3 =>
                 /\ pc' = "failed" /\ error' = MalformedSpec
                 /\ node_family' = node_family
                 /\ nodes_info' = nodes_info /\ queues_info' = queues_info
          /\ (FieldCount(opts.queue) <= 3
              /\ FirstField(opts.queue) \notin DOMAIN queues_info) =>
                 /\ pc' = "failed" /\ error' = UnknownQueue]_vars

\* "qa:4:1:" (4 fields, known queue) failed with no family selected
C12_Witness ==
    /\ opts.queue = <<"q", "a", ":", "4", ":", "1", ":">>
    /\ pc = "failed" /\ error = MalformedSpec
    /\ node_family = None /\ QA \in DOMAIN queues_info

----------------------------------------------------------------------------
(* Properties of the reports and of the exit status *)

\* the process stopped on what left get_arch_spec
StoppedInResolver == step = "exit" /\ pc = "failed"

\* C13: the error kinds of the resolver stay distinct up to the user: the
\* report of an unsupported queue is printed for UnknownQueue only (never for
\* an invalid node id on a known queue), and an invalid cpuSpec is reported
\* with its own reason.
C13_DistinctKinds ==
    StoppedInResolver =>
        /\ report = UnsupportedQueueReport <=> error = UnknownQueue
        /\ error = InvalidCpuSpec =>
               report = WrongQueueSpecReport(InvalidCpuSpec.msg)

----------------------------------------------------------------------------
(* Properties of the resolution of the Gaussian version *)

\* get_gxx_spec returned its results to parse_options
GxxReturned == ~IsNone(gxx_spec)

\* get_gxx_spec was left by an exception or an exit
GxxLeft == step = "exit" /\ pc = "done" /\ IsNone(gxx_spec)

\* get_gxx_spec was called and is over
GxxOver == GxxReturned \/ GxxLeft

\* the token is a keyword: an alias, a version or a working tree
IsKeyword(token) ==
    \/ token \in DOMAIN Val(gxx_versions)
    \/ token \in DOMAIN Val(gxx_versions)[AliasKey]
    \/ token \in DOMAIN Val(workings_info)

\* the token is not a keyword, and is the path of a directory or of a file
IsPathToken(token) == ~IsKeyword(token) /\ PathExists(env, token)

\* C15: a token that is no keyword and is an existing filesystem path gives
\* a path binding rooted at that path (its directory if it names a file),
\* and the resolution completes and returns its results.
C15_PathTokenBinds ==
    (GxxOver /\ IsPathToken(opts.gxxver) /\ IsNone(opts.gxxwrk)) =>
        /\ GxxReturned
        /\ Val(gxx_spec).cmds =
               PathCmds(IF opts.gxxver \in env.dirs THEN opts.gxxver
                        ELSE DirName(opts.gxxver))

\* the token selects the working tree of the catalog
SelectsWorking == opts.gxxver \in DOMAIN Val(workings_info)

\* the token selects a version: by its key, by its alias, or as the base
\* of the working tree
SelectsVersion ==
    \/ SelectsWorking
    \/ opts.gxxver \in DOMAIN Val(gxx_versions) \ {AliasKey}
    \/ opts.gxxver \in DOMAIN Val(gxx_versions)[AliasKey]

\* the Shared option of a section is set and leaves the user out
LeavesOut(data, user) ==
    /\ Has(data, "Shared")
    /\ LET items == SplitList(Val(Get(data, "Shared", None)))
       IN  \A i \in 1..Len(items) :
               /\ Lower(items[i]) \notin {<<"a", "n", "y">>, <<"a", "l", "l">>}
               /\ items[i] # user

\* the user is left out by the version section (the first of the file) or,
\* for a working-tree token, by the section of the tree (the second)
UserLeftOut ==
    \/ SelectsVersion /\ LeavesOut(gconf[1].data, env.user)
    \/ SelectsWorking /\ LeavesOut(gconf[2].data, env.user)

AccessDenied ==
    /\ GxxLeft /\ exit_code = Some(3)
    /\ report \in {Printed(VersionDenied.msg), Printed(WorkingDenied.msg)}

\* C16: the resolution never returns for a user absent from the allow-list
\* of the selected version or of the selected working tree (for a
\* working-tree token both lists are checked): it ends with AccessDenied.
\* An unset list (any/all, or no Shared option) admits every user.
C16_AccessControl ==
    GxxOver =>
        /\ UserLeftOut => AccessDenied
        /\ ~UserLeftOut => ~AccessDenied

\* the version admits every user, the working tree lists another user
C16_Witness ==
    /\ AccessDenied /\ report = Printed(WorkingDenied.msg)
    /\ SelectsWorking /\ ~Has(gconf[1].data, "Shared")
    /\ LeavesOut(gconf[2].data, env.user)

\* the entry of the only version of the catalog
VersionEntry == Val(gxx_versions)[G16C01]

\* the architecture directory of the selected node family is known
ArchKnown == Val(node_family).cpu_arch \in DOMAIN GXX_ARCH_FLAGS

ArchDir == GXX_ARCH_FLAGS[Val(node_family).cpu_arch]

\* the entry has no list of architectures, or the directory is on it
ArchAllowed(entry) == IsNone(entry.mach) \/ InList(ArchDir, Val(entry.mach))

UnsupportedArchitecture ==
    /\ GxxLeft
    /\ \/ exit_code = Some(9) /\ report = Printed(UnsupportedHardware.msg)
       \/ exit_code = Some(2) /\ report = Printed(UnsupportedMach.msg)

\* the version is selected by its key or its alias, the user is admitted,
\* and the entry is a path whose template contains {arch}
ArchTemplateCase ==
    /\ GxxOver /\ SelectsVersion /\ ~SelectsWorking /\ ~UserLeftOut
    /\ "path" \in DOMAIN VersionEntry
    /\ IsSubstring(<<"{arch}">>, VersionEntry.path)

\* C17: for a path entry whose template contains {arch}, the resolution
\* replaces {arch} with the architecture directory of the node family and
\* succeeds whenever the hardware tag is known and the directory is on the
\* list of the entry, if it has one (also for entries with no list); it
\* fails with UnsupportedArchitecture only when the tag is unknown or the
\* directory is not on the list.
C17_ArchResolved ==
    ArchTemplateCase =>
        IF ArchKnown /\ ArchAllowed(VersionEntry)
        THEN /\ GxxReturned
             /\ Val(gxx_spec).cmds =
                    PathCmds(ReplaceAll(
                        ReplaceAll(VersionEntry.path, <<"{arch}">>, ArchDir),
                        <<"{gxx}">>, VersionEntry.gxx))
        ELSE UnsupportedArchitecture

----------------------------------------------------------------------------
(* Properties of the catalog of the versions *)

\* a version section that gives a module name and a component of a path
Ambiguous(sec) ==
    /\ GxxFormat(sec.name)
    /\ Has(sec.data, "ModuleName")
    /\ \/ Has(sec.data, "FullPath")
       \/ Has(sec.data, "RootPath")
       \/ Has(sec.data, "BaseDir")

AmbiguousInstallSpec ==
    /\ step = "exit" /\ exit_code = Some(1)
    /\ report = VersionsFailedReport("Incompatible Module and Path specifications.")
    /\ IsNone(gxx_versions)

\* C18: the construction of the catalog rejects every version section that
\* gives both ModuleName and any of FullPath, RootPath or BaseDir
\* (AmbiguousInstallSpec): no catalog is produced that keeps such a section
\* as a module-only or path-only entry.
C18_AmbiguousRejected ==
    (step # "init" /\ \E i \in 1..Len(gconf) : Ambiguous(gconf[i])) =>
        AmbiguousInstallSpec

----------------------------------------------------------------------------
(* Properties of the combined request of the input files *)

\* main has left its loop over the input files and its tests of the totals
InputsOver ==
    \/ step = "submit"
    \/ /\ step = "exit" /\ "jobname" \in DOMAIN options
       /\ report.head # InsufficientReport(<<>>).head

\* what set_resources returned for the job
JobResources == SetResources(options, maxcpu, maxmem)

\* what check_gjf returns for the input file of index i
Rewritten(i) ==
    CheckGjf(env.gjf[options.infiles[i]], JobResources.nprocs,
             JobResources.mem, FileArg(options.chkfiles, i),
             FileArg(options.rwffiles, i), DirName(options.ginfiles[i]), env)

\* every input file is rewritten and gives a number of processors and a
\* memory size
AllRewritten ==
    /\ IsNone(options.expert)
    /\ \A i \in 1..options.n_input :
           /\ Rewritten(i).err = NoError
           /\ ~IsNone(Rewritten(i).nprocs)
           /\ ~IsNone(Rewritten(i).mem)
           /\ ~IsNone(ConvertStorage(Val(Rewritten(i).mem)))

FileProcs(i) == Val(Rewritten(i).nprocs)

FileMem(i) == Val(ConvertStorage(Val(Rewritten(i).mem)))

RECURSIVE SumTo(_, _)
SumTo(f, n) == IF n = 0 THEN 0 ELSE SumTo(f, n - 1) + f[n]

RECURSIVE MaxTo(_, _)
MaxTo(f, n) == IF n = 0 THEN 0 ELSE Max(MaxTo(f, n - 1), f[n])

\* the combined request: the sums for parallel jobs, else the maxima
Combined ==
    LET n == options.n_input
        p == [i \in 1..n |-> FileProcs(i)]
        m == [i \in 1..n |-> FileMem(i)]
    IN  IF options.multijob = "parallel"
        THEN [cpu |-> SumTo(p, n), mem |-> SumTo(m, n)]
        ELSE [cpu |-> MaxTo(p, n), mem |-> MaxTo(m, n)]

\* C19: the combined request of a submission is, over the (processors,
\* memory) values returned by check_gjf for the input files, the
\* element-wise maximum when the jobs run serially and the element-wise sum
\* when they run in parallel; the submission is rejected when the combined
\* processors exceed cpu.base or the combined memory exceeds mem.base.
C19_Aggregation ==
    (InputsOver /\ AllRewritten) =>
        IF Combined.cpu > maxcpu.base \/ Combined.mem > maxmem.base
        THEN step = "exit"
        ELSE /\ step = "submit"
             /\ full_P = Combined.cpu /\ full_M = Combined.mem
             /\ main_nprocs = Some(Combined.cpu)
             /\ ConvertStorage(Val(main_mem)) = Some(Combined.mem)

\* (4 cores, 8GB) and (6 cores, 4GB) in parallel: (10 cores, 12GB)
C19_Witness ==
    /\ step = "submit" /\ options.n_input = 2
    /\ options.multijob = "parallel"
    /\ FileProcs(1) = 4 /\ FileMem(1) = 8
    /\ FileProcs(2) = 6 /\ FileMem(2) = 4
    /\ full_P = 10 /\ full_M = 12
    /\ main_mem = Some(<<"1", "2", "G", "B">>)

----------------------------------------------------------------------------
(* Properties of the exit status *)

\* the process stopped on an error: it exited, and not on a query option
StoppedOnError == step = "exit" /\ report # MachinesReport

\* C14: every path on which the submitter stops because of an error (missing
\* input file, output, checkpoint or rwf file given for a multi-job,
\* requested memory above the available resources, resolver and version
\* errors) ends the process with a positive exit status; status 0 is left to
\* successful runs and query options.
C14_PositiveExit == StoppedOnError => Val(exit_code) > 0

----------------------------------------------------------------------------
(* Properties of the Link0 directives of the rewritten input *)

Directives == {"chk", "rwf", "mem", "nproc"}

\* the prefix check_gjf looks for on the lower-cased line
Link0Prefix(d) ==
    CASE d = "chk"   -> <<"%", "c", "h", "k">>
      [] d = "rwf"   -> <<"%", "r", "w", "f">>
      [] d = "mem"   -> <<"%", "m", "e", "m">>
      [] d = "nproc" -> <<"%", "n", "p", "r", "o", "c">>

\* the line is one of the directive, in any case
IsDirective(d, line) == StartsWith(Lower(Strip(line)), Link0Prefix(d))

\* main rewrites one input file, and goes on to the submission
RewritesOne ==
    step = "inputs" /\ step' = "submit" /\ Len(options.infiles) = 1

\* the reference input and the new input of the job
SourceLines == env.gjf[options.infiles[1]]

NewLines == gjf_new'[1]

\* the value main hands to check_gjf for the directive: a file argument
\* for chk and rwf, an optional value for mem and nproc
OverrideGiven(d) ==
    CASE d = "chk"   -> Given(FileArg(options.chkfiles, 1))
      [] d = "rwf"   -> Given(FileArg(options.rwffiles, 1))
      [] d = "mem"   -> ~IsNone(main_mem)
      [] d = "nproc" -> ~IsNone(main_nprocs)

OverrideDisabled(d) ==
    CASE d = "chk"   -> FileArg(options.chkfiles, 1) = FileFalse
      [] d = "rwf"   -> FileArg(options.rwffiles, 1) = FileFalse
      [] d = "mem"   -> FALSE
      [] d = "nproc" -> FALSE

OverrideAbsent(d) ==
    CASE d = "chk"   -> FileArg(options.chkfiles, 1) = FileNone
      [] d = "rwf"   -> FileArg(options.rwffiles, 1) = FileNone
      [] d = "mem"   -> IsNone(main_mem)
      [] d = "nproc" -> IsNone(main_nprocs)

\* the line of the injected header that carries the override
HeaderLine(d) ==
    CASE d = "chk"   -> ChkHdr \o FileArg(options.chkfiles, 1).name
      [] d = "rwf"   -> RwfHdr \o FileArg(options.rwffiles, 1).name
      [] d = "mem"   -> MemHdr \o Val(main_mem)
      [] d = "nproc" -> NProcHdr \o PyStr(Val(main_nprocs))

\* a line of the directive of the reference input is in the new input
Survives(d) ==
    \E j \in 1..Len(SourceLines) :
        IsDirective(d, SourceLines[j]) /\ InList(SourceLines[j], NewLines)

\* every line of the directive of the reference input is in the new input
PassedThrough(d) ==
    \A j \in 1..Len(SourceLines) :
        IsDirective(d, SourceLines[j]) => InList(SourceLines[j], NewLines)

\* the value of the line of the reference input, after the "="
SourceValue(line) == Strip(Split(line, "=")[2])

\* the value of the reference input is the one check_gjf reports: the
\* processors and the memory of the job, the copy back of the file
Reported(d, line) ==
    CASE d = "chk"   ->
            InList(<<"cpfrom", SourceValue(line), DirName(options.ginfiles[1])>>,
                   ops_copy')
      [] d = "rwf"   ->
            InList(<<"cpfrom", SourceValue(line), DirName(options.ginfiles[1])>>,
                   ops_copy')
      [] d = "mem"   -> Some(full_M') = ConvertStorage(SourceValue(line))
      [] d = "nproc" -> Some(full_P') = PyInt(SourceValue(line))

SourceReported(d) ==
    \A j \in 1..Len(SourceLines) :
        IsDirective(d, SourceLines[j]) => Reported(d, SourceLines[j])

\* explicit override > existing file value > absent, for one directive
Precedence(d) ==
    /\ OverrideGiven(d) =>
           InList(HeaderLine(d), NewLines) /\ ~Survives(d)
    /\ OverrideAbsent(d) => PassedThrough(d) /\ SourceReported(d)
    /\ OverrideDisabled(d) => ~Survives(d)

\* C20: in the input rewriter each of the four Link0 directives
\* (checkpoint, read-write file, memory, processor count) follows the
\* precedence explicit override > existing file value > absent: with an
\* override the new input has the override in the injected header and no
\* line of the directive of the reference input; without one the line of
\* the reference input is passed through and its value is the one reported;
\* a disabled directive (False) is stripped. The read-write file is
\* handled as the other three.
C20_Link0Precedence ==
    [][RewritesOne => \A d \in Directives : Precedence(d)]_vars

----------------------------------------------------------------------------
(* Properties of the rewriter on the lines it does not recognise *)

\* main has called check_gjf on its only input file
RewroteOne ==
    /\ step = "inputs" /\ step' # "inputs"
    /\ Len(options.infiles) = 1
    /\ ~(~IsNone(options.expert) /\ Val(options.expert) > 0)

\* what check_gjf did for that call
Rewrite ==
    CheckGjf(SourceLines, main_nprocs, main_mem, FileArg(options.chkfiles, 1),
             FileArg(options.rwffiles, 1), DirName(options.ginfiles[1]), env)

\* a "%" line other than %nosave without "=", a %nproc line whose value is
\* no integer, or a "%" line that is none of the five directives
Unrecognised(line) ==
    LET line_lo == Lower(Strip(line))
    IN  /\ StartsWith(line_lo, <<"%">>)
        /\ line_lo # NoSaveLine
        /\ \/ Len(Split(line, "=")) < 2
           \/ IsDirective("nproc", line) /\ IsNone(PyInt(SourceValue(line)))
           \/ /\ \A d \in Directives : ~IsDirective(d, line)
              /\ ~StartsWith(line_lo, <<"%", "o", "l", "d", "c", "h", "k">>)

\* C21: the input rewriter never fails on a readable input: every "%" line
\* that is not a recognised directive or that is malformed (no "=" sign, or
\* a %nproc value that is no integer) is written to the output unmodified
\* and the rewrite completes.
C21_NeverFails ==
    [][RewroteOne =>
         /\ Rewrite.err \notin {IndexError, IntValueError}
         /\ \A j \in 1..Len(SourceLines) :
                Unrecognised(SourceLines[j]) =>
                    InList(SourceLines[j], Rewrite.out)]_vars

----------------------------------------------------------------------------
(* Properties of the rewriter on an input without directive *)

\* no line of the reference input is a %chk, %oldchk, %rwf, %mem or %nproc
NoDirective ==
    \A j \in 1..Len(SourceLines) :
        /\ \A d \in Directives : ~IsDirective(d, SourceLines[j])
        /\ ~StartsWith(Lower(Strip(SourceLines[j])),
                       <<"%", "o", "l", "d", "c", "h", "k">>)

\* the header main asks check_gjf to inject
InjectedHeader ==
    WriteHdr(main_nprocs, main_mem, FileArg(options.chkfiles, 1),
             FileArg(options.rwffiles, 1))

\* the lines, with the header after each --Link1-- separator
RECURSIVE WithHeaders(_, _)
WithHeaders(lines, hdr) ==
    IF lines = <<>> THEN <<>>
    ELSE <<Head(lines)>>
         \o (IF Lower(Strip(Head(lines))) = Link1Line THEN hdr ELSE <<>>)
         \o WithHeaders(Tail(lines), hdr)

\* the lines that are no line of the header
RECURSIVE Without(_, _)
Without(lines, hdr) ==
    IF lines = <<>> THEN <<>>
    ELSE (IF InList(Head(lines), hdr) THEN <<>> ELSE <<Head(lines)>>)
         \o Without(Tail(lines), hdr)

----------------------------------------------------------------------------
(* Properties of the list of the copies *)

\* C23: every entry of the copy list of the input rewriter is a triple
\* (direction, file name, directory), the entries made for the route
\* keywords geomview and FChk included, and no entry is in the list twice,
\* whatever %chk, %oldchk and %rwf lines, link blocks and files the input
\* has.
C23_CopyTriples ==
    [][RewroteOne =>
         /\ \A i \in 1..Len(Rewrite.ops_copy) : Len(Rewrite.ops_copy[i]) = 3
         /\ \A i, k \in 1..Len(Rewrite.ops_copy) :
                i # k => Rewrite.ops_copy[i] # Rewrite.ops_copy[k]]_vars

----------------------------------------------------------------------------
(* Properties of the calls of get_arch_spec one after the other *)

CatalogKept == nodes_info' = nodes_info /\ queues_info' = queues_info

CallReturned == step = "arch" /\ pc \in {"done", "failed"}

SameAsBefore == opts \in DOMAIN outcomes => Outcome = outcomes[opts]

\* C24: no call of the resolution changes the catalog of the families and of
\* the queues, and a call returns the allocation or the error that the same
\* options gave the first time, whatever calls were made in between
C24_CallsIndependent ==
    /\ [][CatalogKept]_vars
    /\ [](CallReturned => SameAsBefore)

\* the options of an earlier call have been given again, after a call that
\* took another family and a call that failed
C24_Witness ==
    /\ CallReturned
    /\ pc = "done"
    /\ opts \in DOMAIN outcomes
    /\ \E o \in DOMAIN outcomes :
          /\ outcomes[o].error = NoError
          /\ outcomes[o].tmp_path # tmp_path
    /\ \E o \in DOMAIN outcomes : outcomes[o].error # NoError

----------------------------------------------------------------------------
(* Properties of the files that -i tells to ignore *)

\* -i names the file: c or chk (r or rwf), or a or all
Ignored(d) ==
    /\ ~IsNone(opts.gxxl0I)
    /\ \E i \in 1..Len(Val(opts.gxxl0I)) :
          Val(opts.gxxl0I)[i] \in {d, "a", "all"} \cup
                                  (IF d = "chk" THEN {"c"} ELSE {"r"})

\* the name ends with the extension of the file
HasExt(name, d) ==
    Len(name) > 2 /\ SubSeq(name, Len(name) - 1, Len(name)) = <<".", d>>

\* no line of the new input is a directive of the file, and no entry of the
\* list of the copies names a file of that kind
LeftOut(d) ==
    /\ \A j \in 1..Len(Rewrite.out) : ~IsDirective(d, Rewrite.out[j])
    /\ \A i \in 1..Len(Rewrite.ops_copy) :
          ~HasExt(Rewrite.ops_copy[i][2], d)

\* C25: when -i names the checkpoint file (the read-write file), the
\* rewritten input holds no directive of the file and the list of the copies
\* holds no file of that kind
C25_IgnoreTakesEffect ==
    [][RewroteOne /\ Rewrite.err = NoError =>
         \A d \in {"chk", "rwf"} : Ignored(d) => LeftOut(d)]_vars

----------------------------------------------------------------------------
(* Properties of the search path of the executables *)

RECURSIVE Reversed(_)
Reversed(items) ==
    IF items = <<>> THEN <<>> ELSE Reversed(Tail(items)) \o <<Head(items)>>

\* get_gxx_spec returned the path for a command line with -w
WorkDirsGiven ==
    step = "files" /\ ~IsNone(gxx_spec) /\ ~IsNone(opts.gxxwrk)

\* the part of the path that comes from -w: its last entries
FromOptions ==
    LET path == Val(gxx_spec).exedir
        n == Len(Val(opts.gxxwrk))
    IN  SubSeq(path, Len(path) - n + 1, Len(path))

\* C26: the directories that -w gives are searched from the last given to
\* the first given, before the installation
C26_LastGivenFirst ==
    WorkDirsGiven =>
        /\ Len(Val(gxx_spec).exedir) >= Len(Val(opts.gxxwrk))
        /\ FromOptions = Reversed(Val(opts.gxxwrk))

----------------------------------------------------------------------------
(* Properties of the builders of the head of the job script *)

\* a builder of the head returned without raising
HeadBuilt ==
    /\ ~IsNone(libcall)
    /\ Val(libcall).fn \in {"build_qsub_head", "build_sbatch_head"}
    /\ Val(libcall).res.err = NoError

\* the text of the head for the arguments of the call
HeadText ==
    LET c == Val(libcall)
    IN  IF c.fn = "build_qsub_head"
        THEN QsubText(c.args, Val(c.args.extraopts))
             \o Val(QsubStore(c.args.shell))
        ELSE SbatchText(c.args, Val(c.args.extraopts))

\* C27: a builder of the head returns the text when no stream is given, and
\* with a stream it writes that text to the stream and returns nothing
C27_ReturnsOrWrites ==
    HeadBuilt =>
        LET c == Val(libcall)
        IN  IF IsNone(c.out)
            THEN c.res.ret = Some(HeadText) /\ IsNone(c.res.stream)
            ELSE /\ IsNone(c.res.ret)
                 /\ c.res.stream = Some(PrintTo(Val(c.out), HeadText))

----------------------------------------------------------------------------
(* Properties of get_path on a configuration that misses an item *)

\* get_path was called for a quantity it knows, on a configuration file
PathAsked ==
    /\ ~IsNone(libcall)
    /\ Val(libcall).fn = "get_path"
    /\ ~IsNone(Val(libcall).config)
    /\ ~IsNone(PathInfo(Val(libcall).what, Val(libcall).full_path))

\* the section or the option that holds the quantity is not in the file:
\* [CONFIG] and the option of the file, [PATHS] and the option of the path
ItemMissing ==
    LET c == Val(libcall)
        info == Val(PathInfo(c.what, c.full_path))
    IN  IF ~IsNone(info.file)
        THEN IsNone(ConfigGet(Val(c.config).CONFIG, Val(info.file)))
        ELSE IsNone(ConfigGet(Val(c.config).PATHS, Val(info.path)))

\* C28: when the section or the option of the quantity is missing, get_path
\* raises ValueError if miss_ok is False, and returns None without raising
\* if miss_ok is True, for the quantities of a file and those of a path
C28_HonoursMissOk ==
    (PathAsked /\ ItemMissing) =>
        LET c == Val(libcall)
        IN  IF c.miss_ok
            THEN c.res.err = NoError /\ IsNone(c.res.val)
            ELSE c.res.err.exc = "ValueError"

----------------------------------------------------------------------------
(* Properties of the state of build of the parameters *)

\* the call that has just returned
Called(fn) == ~IsNone(libcall') /\ Val(libcall').fn = fn

Succeeded == Val(libcall').err = NoError

----------------------------------------------------------------------------
(* Properties of the resources of one job *)

\* main calls set_resources
SetsResources == step = "resources" /\ step' # "resources"

\* several input files to run side by side
ParallelJobs == options.n_input > 1 /\ options.multijob = "parallel"

KeepsProcs == Keeps(options.gxxlnk0, {"p", "proc", "a", "all"})

KeepsMem == Keeps(options.gxxlnk0, {"m", "mem", "a", "all"})

\* the size that the text of the memory stands for
MemSize(text) == Val(ConvertStorage(Val(text)))

\* the processors and the memory of one job of a parallel run
FairShare ==
    LET n == options.n_input
        np == maxcpu.base \div n
    IN  /\ step' = "inputs"
        /\ main_nprocs' = Some(np)
        /\ n * np <= maxcpu.base
        /\ ~KeepsMem =>
              /\ MemSize(main_mem') = (maxmem.base * np) \div maxcpu.base
              /\ n * MemSize(main_mem') <= maxmem.base

============================================================================
